---- MODULE Spec2Model ----
(***************************************************************************)
(* The asyncio chat server of Project_AsyncChatServer/server.py as a state *)
(* machine.  One task per accepted connection (handle_client) and one      *)
(* dispatcher task (event_dispatcher) run on a single event loop: a step   *)
(* of the model is the code one task runs between two suspension points    *)
(* (reader.readline, reader.readexactly, writer.drain, an empty            *)
(* EVENT_QUEUE.get, writer.wait_closed).  EVENT_QUEUE.put on the unbounded *)
(* queue and EVENT_QUEUE.get on a non-empty queue never suspend.           *)
(*                                                                         *)
(* A text line is the sequence of its whitespace-separated words; str.split*)
(* and the f-strings of the code are sequence operations on it.            *)
(***************************************************************************)
EXTENDS Integers, Sequences, FiniteSets, TLC

\* ------------------------------------------------------------------ bounds
NConn == 2
NWide == 3
MaxLines == 4

\* The connections: the first NConn of them are accepted in the
\* specifications with every command, all NWide in SpecWide.
Conns == 1..NWide
Few == 1..NConn
NoConn == 0
None == <<>>
Anonim == <<"Anonim">>

\* The dispatcher task, where a task is named.
Dispatcher == NWide + 1

VARIABLES
    CLIENTS,      \* the session registry: writer -> [nick, room]
    slots,        \* the entry table of the CLIENTS dict: its keys in insertion
                  \* order, NoConn where a key was deleted
    ROOMS,        \* the room registry: room name -> set of writers
    roomKeys,     \* the keys of ROOMS in insertion order
    EVENT_QUEUE,  \* the asyncio.Queue of broadcast events
    pc,           \* where each connection's handle_client task is suspended
    loc,          \* the locals of each handle_client task
    dloc,         \* the position and locals of event_dispatcher
    peer,         \* whether the client's end of each connection is still there
    inbuf,        \* the payload bytes each client has sent that are not yet read
    took,         \* observer: the bytes readexactly returned in the step just taken
    rd,           \* observer: the line read by the step just taken
    wrote,        \* observer: the write made by the step just taken
    nread,        \* the number of lines read so far
    nput          \* the number of events put so far

vars == <<CLIENTS, slots, ROOMS, roomKeys, EVENT_QUEUE,
          pc, loc, dloc, peer, inbuf, took, rd, wrote, nread, nput>>

\* ------------------------------------------------------------ input lines
Nicks == {"Alice", "Bob"}
RoomNames == {"lobby", "temp"}

\* The lines a client sends in the main specification: every well-formed
\* command of the protocol.
CoreLines ==
    {<<"/nick", n>> : n \in Nicks} \cup {<<"/join", r>> : r \in RoomNames}
    \cup {<<"/pm", n, "hi">> : n \in Nicks}
    \cup {<<"/rooms">>, <<"/who">>, <<"/quit">>, <<"Hello!">>,
          <<"/file", "dir/report.bin", "2">>}

\* The lines of the specification of malformed commands: every command with
\* arguments missing or unusable, next to one well-formed line of each kind.
MalformedLines ==
    {<<"/nick">>, <<"/join">>, <<"/pm">>, <<"/pm", "Alice">>,
     <<"/file">>, <<"/file", "report.bin">>,
     <<"/file", "report.bin", "abc">>, <<"/file", "report.bin", "-1">>}

ErrLines ==
    MalformedLines
    \cup {<<"/nick", "Alice">>, <<"/join", "lobby">>, <<"/pm", "Alice", "hi">>,
          <<"/file", "dir/report.bin", "2">>, <<"Hello!">>}

\* ------------------------------------------------------- string functions
\* str.startswith on the first word of a line, over the words clients send.
PrefixPairs == {<<"/nick", "/nickname">>, <<"/file", "/files">>}

StartsWith(tok, pre) == tok = pre \/ <<pre, tok>> \in PrefixPairs

\* msg.split(maxsplit=k): at most k+1 parts, the last one the rest of the
\* line.  A part is itself a sequence of words.
SplitMax(msg, k) ==
    IF Len(msg) <= k + 1
    THEN [i \in 1..Len(msg) |-> <<msg[i]>>]
    ELSE [i \in 1..(k + 1) |-> IF i <= k THEN <<msg[i]>>
                                ELSE SubSeq(msg, k + 1, Len(msg))]

\* Mutant: the directory part of the name is kept.
Basename_KeepsPath(name) == name

\* os.path.basename over the file names clients send.
Basename(name) ==
    CASE name = "dir/report.bin" -> "report.bin"
      [] name = "../secret" -> "secret"
      [] OTHER -> name

\* int(text): the words that parse, with their values; any other raises
\* ValueError.
IntWords == {"0", "1", "2", "-1"}
IntOf(w) ==
    CASE w = "0" -> 0 [] w = "1" -> 1 [] w = "2" -> 2 [] w = "-1" -> 0 - 1

\* The bytes a client sends as a payload of the announced size.
Payload(n) == [i \in 1..n |-> IF i = 1 THEN "x00" ELSE "x0a"]

\* ------------------------------------------------------------- the chunks
\* What the server writes to a stream: text lines and raw payloads.  ev is
\* the enqueue number of the queued event a write belongs to, 0 for a
\* write made by a connection's own task.
TextChunk(text, ev) == [k |-> "line", v |-> text, ev |-> ev]
DataChunk(data, ev) == [k |-> "data", v |-> data, ev |-> ev]

\* writer.write + drain: the bytes reach the client when its peer is still
\* there and the writer is not closed; otherwise the failure is swallowed.
Writable(w) == peer[w] = "open" /\ pc[w] # "done"

\* The observers.  wrote: who called write, on whose stream, what, and
\* whether it was delivered.  rd: who read which line.
Quiet == [by |-> NoConn, to |-> NoConn, chunks |-> <<>>, ok |-> FALSE]
NoLine == [by |-> NoConn, line |-> <<>>]
NoBytes == [by |-> NoConn, bytes |-> <<>>]

\* A step that reads nothing.
NoRead == rd' = NoLine /\ took' = NoBytes

NoWrite == wrote' = Quiet

\* send (lines 9-15) called by task `by` on the stream of w; the file frame
\* of lines 44-46 is written the same way.
send(by, w, chunks) ==
    wrote' = [by |-> by, to |-> w, chunks |-> chunks, ok |-> Writable(w)]

\* Mutant: a failed write ends the loop over the members.
AfterWrite_Aborts(todo, ok) == IF ok THEN todo ELSE {}

\* The members still to be written after a write that succeeded or not:
\* the exception of a failed write is swallowed (lines 14-15 and 47-48) and
\* the loop over the members goes on.
AfterWrite(todo, ok) == todo

\* -------------------------------------------------------------- registries
EmptyMap == [x \in {} |-> None]

NickOf(clients, w) == IF w \in DOMAIN clients THEN clients[w].nick ELSE None
RoomOf(clients, w) == IF w \in DOMAIN clients THEN clients[w].room ELSE None
OrAnonim(nick) == IF nick = None THEN Anonim ELSE nick

\* CLIENTS[writer] = {"nick": None, "room": None}
\* Mutant: a new session starts with the room field set to lobby.
NewSession_InLobby(clients, w) ==
    [x \in DOMAIN clients \cup {w} |->
        IF x = w THEN [nick |-> None, room |-> <<"lobby">>] ELSE clients[x]]

NewSession(clients, w) ==
    [x \in DOMAIN clients \cup {w} |->
        IF x = w THEN [nick |-> None, room |-> None] ELSE clients[x]]

\* Mutant: /nick renames every session.
SetNick_Everyone(clients, w, name) == [x \in DOMAIN clients |-> [clients[x] EXCEPT !.nick = name]]

\* CLIENTS[writer]["nick"] = name, CLIENTS[writer]["room"] = room
SetNick(clients, w, name) == [clients EXCEPT ![w].nick = name]

\* Mutant: /join forgets to record the room in the session.
SetRoom_Forgotten(clients, w, room) == clients

SetRoom(clients, w, room) == [clients EXCEPT ![w].room = room]

\* Mutant: the session entry is left in the registry.
PopSession_Keeps(clients, w) == clients

\* CLIENTS.pop(writer, None)
PopSession(clients, w) == [x \in DOMAIN clients \ {w} |-> clients[x]]

\* ROOMS.get(room, [])
\* Mutant: a room without an entry counts every connected client a member.
Members_Everyone(rooms, room) ==
    IF room \in DOMAIN rooms THEN rooms[room] ELSE DOMAIN CLIENTS

Members(rooms, room) == IF room \in DOMAIN rooms THEN rooms[room] ELSE {}

\* Mutant: the leaving writer stays in the member set.
Discard_Nothing(rooms, room, w) == rooms

\* ROOMS[room].discard(w)
Discard(rooms, room, w) == [rooms EXCEPT ![room] = @ \ {w}]

\* Mutant: an emptied room is kept.
cleanup_room_Keeps(rooms, room) == rooms

\* cleanup_room: the registry after the call.
cleanup_room(rooms, room) ==
    IF room # None /\ room \in DOMAIN rooms /\ Cardinality(rooms[room]) = 0
    THEN [r \in DOMAIN rooms \ {room} |-> rooms[r]]
    ELSE rooms

\* The key order of the registry: a deleted key leaves it, a new key is last.
KeysAfter(keys, rooms) == SelectSeq(keys, LAMBDA r : r \in DOMAIN rooms)

AddKey(keys, rooms, room) ==
    IF room \in DOMAIN rooms THEN keys ELSE Append(keys, room)

\* Mutant: the room entry is created but the writer is not added to it.
AddMember_OnlyCreates(rooms, room, w) ==
    [r \in DOMAIN rooms \cup {room} |-> Members(rooms, r)]

\* ROOMS.setdefault(room, set()).add(w)
AddMember(rooms, room, w) ==
    [r \in DOMAIN rooms \cup {room} |->
        IF r = room THEN Members(rooms, room) \cup {w} ELSE rooms[r]]

\* Mutant: the excluded writer is written to like the others.
Recipients_IgnoresExclude(rooms, room, exclude) == Members(rooms, room)

\* list(ROOMS.get(room, [])) without the excluded writer: the writers a
\* broadcast sends to (lines 20-21).
Recipients(rooms, room, exclude) == Members(rooms, room) \ {exclude}

\* A task's locals; the fields a position does not use keep these values.
\*   broom, text, exclude, snap, todo: the broadcast the task is in (its
\*     arguments, the members it iterates, those not yet written);
\*   got: observer, the writers the broadcast has written to;
\*   ret: where the broadcast returns to;
\*   room, old: the locals of these names;
\*   target, ptext, sender, pos, used, left, found: the /pm loop and the
\*     iterator of CLIENTS.items();
\*   held: observer, the writers whose nickname was the target when the
\*     /pm line was read; sent: observer, the writers the loop has sent to;
\*   filename, size: the locals of /file.
Idle == [broom |-> None, text |-> <<>>, exclude |-> NoConn, snap |-> {},
         todo |-> {}, got |-> {}, ret |-> "",
         room |-> None, old |-> None,
         target |-> "", ptext |-> <<>>, sender |-> <<>>,
         pos |-> 0, used |-> 0, left |-> 0, found |-> FALSE,
         held |-> {}, sent |-> {}, nconf |-> 0,
         filename |-> "", size |-> 0]

\* An event of the queue.  seq (its enqueue number), from (the connection
\* that put it) and mem0 (the members of its room when it was put) are
\* observers.
NoEvent == [type |-> "", room |-> None, text |-> <<>>, filename |-> "",
            data |-> <<>>, sender |-> NoConn,
            seq |-> 0, from |-> NoConn, mem0 |-> {}]

Init ==
    /\ CLIENTS = EmptyMap
    /\ slots = <<>>
    /\ ROOMS = EmptyMap
    /\ roomKeys = <<>>
    /\ EVENT_QUEUE = <<>>
    /\ pc = [c \in Conns |-> "new"]
    /\ loc = [c \in Conns |-> Idle]
    /\ dloc = [pc |-> "get", ev |-> NoEvent, snap |-> {}, todo |-> {}, got |-> {},
               failed |-> {}, taken |-> 0, errors |-> 0, dropped |-> <<>>]
    /\ peer = [c \in Conns |-> "open"]
    /\ inbuf = [c \in Conns |-> <<>>]
    /\ took = NoBytes
    /\ rd = NoLine
    /\ wrote = Quiet
    /\ nread = 0
    /\ nput = 0

\* ------------------------------------------------------ the text messages
LeftText(nick) == nick \o <<"left", "the", "room">>
JoinedText(nick) == nick \o <<"joined", "the", "room">>
JoinedRoomText(room) == <<"Joined", "room">> \o room
NickSetText(name) == <<"Nick", "set:">> \o name
ChatText(nick, msg) == <<"[">> \o nick \o <<"]">> \o msg
PmFromText(sender, text) == <<"[PM", "from">> \o sender \o <<"]">> \o text
PmToText(target, text) == <<"[PM", "to">> \o target \o <<"]">> \o text
FileSentText(filename) == <<"File", "sent:", filename>>
SentFileText(nick, filename) == nick \o <<"sent", "file:", filename>>
FileFrameText(filename, data) == <<"/file", filename, ToString(Len(data))>>

\* "Available rooms:\n" + "\n".join(f"  {r} ({len(m)} users)" ...), the
\* rooms in the registry's key order.
RECURSIVE RoomLines(_, _)
RoomLines(keys, rooms) ==
    IF keys = <<>> THEN <<>>
    ELSE <<"\n">> \o Head(keys)
         \o <<"(", ToString(Cardinality(rooms[Head(keys)])), "users)">>
         \o RoomLines(Tail(keys), rooms)

RoomsText(keys, rooms) ==
    IF DOMAIN rooms = {} THEN <<"No", "rooms", "available">>
    ELSE <<"Available", "rooms:">> \o RoomLines(keys, rooms)

\* The orders in which a set can be iterated.
Orders(S) == {s \in [1..Cardinality(S) -> S] : \A i, j \in DOMAIN s : i # j => s[i] # s[j]}

RECURSIVE WhoLines(_, _, _)
WhoLines(ws, clients, me) ==
    IF ws = <<>> THEN <<>>
    ELSE <<"\n", "*">> \o OrAnonim(NickOf(clients, Head(ws)))
         \o (IF Head(ws) = me THEN <<"(you)">> ELSE <<>>)
         \o WhoLines(Tail(ws), clients, me)

WhoText(room, ws, clients, me) ==
    <<"Users", "in", "'">> \o room \o <<"'", "(", ToString(Len(ws)), "):">>
    \o WhoLines(ws, clients, me)


\* --------------------------------------------------------------- broadcast
\* broadcast(room, text, exclude) (lines 18-22) called by task c with the
\* registry `rooms`, from the call to its first drain: the members are
\* copied and the first of them is written.  l is the caller's locals and
\* ret the place the call returns to.  A broadcast with nobody to write to
\* returns without suspending: the callers take that case themselves.
BroadcastStart(c, rooms, room, text, exclude, ret, l) ==
    \E w \in Recipients(rooms, room, exclude) :
      /\ send(c, w, <<TextChunk(text, 0)>>)
      /\ pc' = [pc EXCEPT ![c] = "bcast"]
      /\ loc' = [loc EXCEPT ![c] =
                   [l EXCEPT !.broom = room, !.text = text, !.exclude = exclude,
                             !.snap = Members(rooms, room),
                             !.todo = AfterWrite(Recipients(rooms, room, exclude) \ {w},
                                                 Writable(w)),
                             !.got = {w}, !.ret = ret]]

\* ------------------------------------------------------ disconnect cleanup
\* CLIENTS.pop(writer, None); writer.close(); wait_closed (lines 192-198).
\* A deleted key leaves a hole in the dict's entry table.
PopAndClose(c, room, rooms, keys) ==
    /\ CLIENTS' = PopSession(CLIENTS, c)
    /\ slots' = [i \in DOMAIN slots |-> IF slots[i] = c THEN NoConn ELSE slots[i]]
    /\ ROOMS' = rooms
    /\ roomKeys' = keys
    /\ pc' = [pc EXCEPT ![c] = "done"]
    /\ loc' = [loc EXCEPT ![c] = [Idle EXCEPT !.room = room]]
    /\ NoWrite

\* Mutant: the disconnect cleanup does not delete the room it emptied.
DisconnectFinish_NoCleanup(c, room, rooms, keys) == PopAndClose(c, room, rooms, keys)

\* Lines 190-198, after the leave broadcast (if any) returned.
DisconnectFinish(c, room, rooms, keys) ==
    LET after == cleanup_room(rooms, room)
    IN  PopAndClose(c, room, after, KeysAfter(keys, after))

\* Mutant: the leave line is broadcast before the member is discarded, so
\* the departing connection is among its recipients.
DisconnectStart_TellsSelf(c) ==
    LET nick == OrAnonim(NickOf(CLIENTS, c))
        room == RoomOf(CLIENTS, c)
    IN  IF room # None /\ room \in DOMAIN ROOMS
        THEN /\ BroadcastStart(c, ROOMS, room, LeftText(nick), NoConn, "disc",
                               [Idle EXCEPT !.room = room])
             /\ ROOMS' = Discard(ROOMS, room, c)
             /\ UNCHANGED <<CLIENTS, slots, roomKeys>>
        ELSE PopAndClose(c, room, ROOMS, roomKeys)

\* Lines 183-198 up to the first suspension: runs in the step that left the
\* read loop.
DisconnectStart(c) ==
    LET nick == OrAnonim(NickOf(CLIENTS, c))
        room == RoomOf(CLIENTS, c)
    IN  IF room # None /\ room \in DOMAIN ROOMS
        THEN LET rooms1 == Discard(ROOMS, room, c)
             IN  IF rooms1[room] # {}
                 THEN /\ BroadcastStart(c, rooms1, room, LeftText(nick), NoConn, "disc",
                                        [Idle EXCEPT !.room = room])
                      /\ ROOMS' = rooms1
                      /\ UNCHANGED <<CLIENTS, slots, roomKeys>>
                 ELSE DisconnectFinish(c, room, rooms1, roomKeys)
        ELSE PopAndClose(c, room, ROOMS, roomKeys)

\* ------------------------------------------------------------------ /join
\* Lines 92-95: the session's room is set, the member added, the caller told.
JoinEnter(c, room, rooms, keys) ==
    /\ CLIENTS' = SetRoom(CLIENTS, c, room)
    /\ ROOMS' = AddMember(rooms, room, c)
    /\ roomKeys' = AddKey(keys, rooms, room)
    /\ send(c, c, <<TextChunk(JoinedRoomText(room), 0)>>)
    /\ pc' = [pc EXCEPT ![c] = "join_sent"]
    /\ loc' = [loc EXCEPT ![c] =
                 [Idle EXCEPT !.room = room,
                              !.text = JoinedText(OrAnonim(NickOf(CLIENTS, c)))]]
    /\ slots' = slots

\* Mutant: the old room is left without a word to its members.
JoinCmd_NoLeaveLine(c, room) ==
    LET old == RoomOf(CLIENTS, c)
    IN  IF old = None
        THEN JoinEnter(c, room, ROOMS, roomKeys)
        ELSE LET after == cleanup_room(Discard(ROOMS, old, c), old)
             IN  JoinEnter(c, room, after, KeysAfter(roomKeys, after))

\* Lines 84-95 up to the first suspension.
JoinCmd(c, room) ==
    LET old == RoomOf(CLIENTS, c)
    IN  IF old = None
        THEN JoinEnter(c, room, ROOMS, roomKeys)
        ELSE IF old \notin DOMAIN ROOMS
        THEN DisconnectStart(c)     \* ROOMS[old] raises KeyError
        ELSE LET rooms1 == Discard(ROOMS, old, c)
                 nick == OrAnonim(NickOf(CLIENTS, c))
             IN  IF Recipients(rooms1, old, NoConn) = {}
                 THEN LET after == cleanup_room(rooms1, old)
                      IN  JoinEnter(c, room, after, KeysAfter(roomKeys, after))
                 ELSE /\ BroadcastStart(c, rooms1, old, LeftText(nick), NoConn, "join",
                                        [Idle EXCEPT !.room = room, !.old = old])
                      /\ ROOMS' = rooms1
                      /\ UNCHANGED <<CLIENTS, slots, roomKeys>>

\* Mutant: the join broadcast excludes the joiner, as /file excludes the sender.
JoinSent_ExcludesSelf(c) ==
    /\ pc[c] = "join_sent"
    /\ IF Recipients(ROOMS, loc[c].room, c) = {}
       THEN /\ pc' = [pc EXCEPT ![c] = "read"]
            /\ loc' = [loc EXCEPT ![c] = Idle]
            /\ NoWrite
       ELSE BroadcastStart(c, ROOMS, loc[c].room, loc[c].text, c, "read", Idle)
    /\ NoRead
    /\ UNCHANGED <<CLIENTS, slots, ROOMS, roomKeys, EVENT_QUEUE, dloc, peer, inbuf, nread, nput>>

\* Line 96, after the drain of line 95: broadcast(room, "... joined the room").
JoinSent(c) ==
    /\ pc[c] = "join_sent"
    /\ IF Recipients(ROOMS, loc[c].room, NoConn) = {}
       THEN /\ pc' = [pc EXCEPT ![c] = "read"]
            /\ loc' = [loc EXCEPT ![c] = Idle]
            /\ NoWrite
       ELSE BroadcastStart(c, ROOMS, loc[c].room, loc[c].text, NoConn, "read", Idle)
    /\ NoRead
    /\ UNCHANGED <<CLIENTS, slots, ROOMS, roomKeys, EVENT_QUEUE, dloc, peer, inbuf, nread, nput>>

\* broadcast resumed after a drain: the next member of the copy is written,
\* or the call returns and the caller's code after it runs.
BroadcastStep(c) ==
    /\ pc[c] = "bcast"
    /\ IF loc[c].todo # {}
       THEN \E w \in loc[c].todo :
              /\ send(c, w, <<TextChunk(loc[c].text, 0)>>)
              /\ loc' = [loc EXCEPT ![c].todo = AfterWrite(@ \ {w}, Writable(w)),
                                     ![c].got = @ \cup {w}]
              /\ UNCHANGED <<CLIENTS, slots, ROOMS, roomKeys, pc>>
       ELSE CASE loc[c].ret = "join" ->
                   LET after == cleanup_room(ROOMS, loc[c].old)
                   IN  JoinEnter(c, loc[c].room, after, KeysAfter(roomKeys, after))
              [] loc[c].ret = "disc" ->
                   DisconnectFinish(c, loc[c].room, ROOMS, roomKeys)
              [] OTHER ->
                   /\ pc' = [pc EXCEPT ![c] = "read"]
                   /\ loc' = [loc EXCEPT ![c] = Idle]
                   /\ NoWrite
                   /\ UNCHANGED <<CLIENTS, slots, ROOMS, roomKeys>>
    /\ NoRead
    /\ UNCHANGED <<EVENT_QUEUE, dloc, peer, inbuf, nread, nput>>

\* handle_client, lines 57-60: the session is created and greeted.
\* Connections are numbered in the order they are accepted.
Accept(c) ==
    /\ pc[c] = "new"
    /\ \A b \in Conns : b < c => pc[b] # "new"
    /\ CLIENTS' = NewSession(CLIENTS, c)
    /\ slots' = Append(slots, c)
    /\ pc' = [pc EXCEPT ![c] = "read"]
    /\ send(c, c, <<TextChunk(<<"Welcome!">>, 0)>>)
    /\ NoRead
    /\ UNCHANGED <<ROOMS, roomKeys, EVENT_QUEUE, loc, dloc, peer, inbuf, nread, nput>>

\* -------------------------------------------------------------------- /pm
\* next() of the iterator of CLIENTS.items() (line 131), repeated while the
\* entries do not match: the dict's size is compared with the size at the
\* iterator's creation, holes are skipped, and an entry found after the
\* expected number was yielded is an error too.  The result is the first
\* match, the end of the loop, or RuntimeError.
RECURSIVE PmNext(_, _, _, _, _, _)
PmNext(clients, sl, target, pos, left, used) ==
    IF used # Cardinality(DOMAIN clients)
    THEN [t |-> "error", w |-> NoConn, pos |-> pos, left |-> left]
    ELSE IF pos > Len(sl)
    THEN [t |-> "stop", w |-> NoConn, pos |-> pos, left |-> left]
    ELSE IF sl[pos] = NoConn
    THEN PmNext(clients, sl, target, pos + 1, left, used)
    ELSE IF left = 0
    THEN [t |-> "error", w |-> NoConn, pos |-> pos, left |-> left]
    ELSE IF clients[sl[pos]].nick = <<target>>
    THEN [t |-> "match", w |-> sl[pos], pos |-> pos + 1, left |-> left - 1]
    ELSE PmNext(clients, sl, target, pos + 1, left - 1, used)

\* Lines 131-137 from the loop's head to the next suspension, with the
\* locals l of the command.
PmLoop(c, l) ==
    LET r == PmNext(CLIENTS, slots, l.target, l.pos, l.left, l.used)
    IN  CASE r.t = "match" ->
               /\ send(c, r.w, <<TextChunk(PmFromText(l.sender, l.ptext), 0)>>)
               /\ pc' = [pc EXCEPT ![c] = "pm_from_sent"]
               /\ loc' = [loc EXCEPT ![c] =
                            [l EXCEPT !.pos = r.pos, !.left = r.left, !.found = TRUE,
                                      !.sent = @ \cup {r.w}]]
               /\ UNCHANGED <<CLIENTS, slots, ROOMS, roomKeys>>
          [] r.t = "stop" ->
               /\ IF l.found THEN NoWrite
                  ELSE send(c, c, <<TextChunk(<<"User", "not", "found">>, 0)>>)
               /\ pc' = [pc EXCEPT ![c] = "read"]
               /\ loc' = [loc EXCEPT ![c] = Idle]
               /\ UNCHANGED <<CLIENTS, slots, ROOMS, roomKeys>>
          [] OTHER -> DisconnectStart(c)   \* RuntimeError, caught at line 180

\* Lines 128-131: the locals of a /pm command at the loop's head.
PmLocals(c, target, text) ==
    [Idle EXCEPT !.target = target, !.ptext = text,
                 !.sender = OrAnonim(NickOf(CLIENTS, c)),
                 !.pos = 1, !.used = Cardinality(DOMAIN CLIENTS),
                 !.left = Cardinality(DOMAIN CLIENTS),
                 !.held = {w \in DOMAIN CLIENTS : CLIENTS[w].nick = <<target>>}]

\* Line 135, after the drain of line 134.  nconf counts the confirmations
\* the command has written to its sender.
PmFromSent(c) ==
    /\ pc[c] = "pm_from_sent"
    /\ send(c, c, <<TextChunk(PmToText(<<loc[c].target>>, loc[c].ptext), 0)>>)
    /\ pc' = [pc EXCEPT ![c] = "pm_to_sent"]
    /\ loc' = [loc EXCEPT ![c].nconf = @ + 1]
    /\ NoRead
    /\ UNCHANGED <<CLIENTS, slots, ROOMS, roomKeys, EVENT_QUEUE, dloc, peer, inbuf, nread, nput>>

\* The loop's next iteration, after the drain of line 135.
PmToSent(c) ==
    /\ pc[c] = "pm_to_sent"
    /\ PmLoop(c, loc[c])
    /\ NoRead
    /\ UNCHANGED <<EVENT_QUEUE, dloc, peer, inbuf, nread, nput>>

\* ------------------------------------------------------------- the events
\* The dicts put on the queue at lines 157-160 and 173-176.
FileEvent(room, filename, data, sender, seq, mem0) ==
    [type |-> "file_broadcast", room |-> room, text |-> <<>>,
     filename |-> filename, data |-> data, sender |-> sender,
     seq |-> seq, from |-> sender, mem0 |-> mem0]

TextEvent(room, text, seq, from, mem0) ==
    [type |-> "broadcast", room |-> room, text |-> text,
     filename |-> "", data |-> <<>>, sender |-> NoConn,
     seq |-> seq, from |-> from, mem0 |-> mem0]

\* Mutant: the queue hands out the newest event first.
Put_Lifo(queue, event) == <<event>> \o queue

\* await EVENT_QUEUE.put(event)
Put(queue, event) == Append(queue, event)

\* ------------------------------------------------------------------ /file
\* readexactly(size) returns the payload, or raises: ValueError for a
\* negative size, IncompleteReadError when the peer is gone before the
\* bytes came.
ReadOutcomes(c, size) ==
    IF size < 0 THEN {"error"}
    ELSE IF peer[c] = "gone" THEN {"data", "error"}
    ELSE {"data"}

\* Mutant: readexactly returns without taking anything from the stream.
ReadExactly_Nothing(buf, n) == [data |-> <<>>, rest |-> buf]

\* reader.readexactly(n) on a stream whose unread bytes are buf: the bytes
\* returned and the bytes left unread.
ReadExactly(buf, n) ==
    LET k == IF n < Len(buf) THEN n ELSE Len(buf)
    IN  [data |-> SubSeq(buf, 1, k), rest |-> SubSeq(buf, k + 1, Len(buf))]

\* Lines 155-161, once the payload is read.
FileEnqueue(c, l) ==
    /\ EVENT_QUEUE' = Put(EVENT_QUEUE,
                          FileEvent(l.room, l.filename,
                                    ReadExactly(inbuf[c], l.size).data, c, nput + 1,
                                    Members(ROOMS, l.room)))
    /\ nput' = nput + 1
    /\ send(c, c, <<TextChunk(FileSentText(l.filename), 0)>>)
    /\ pc' = [pc EXCEPT ![c] = "file_sent"]
    /\ loc' = [loc EXCEPT ![c] =
                 [l EXCEPT !.text = SentFileText(OrAnonim(NickOf(CLIENTS, c)), l.filename)]]
    /\ UNCHANGED <<CLIENTS, slots, ROOMS, roomKeys>>

\* Line 153 after the drain of line 152: the payload of a /file sent
\* outside a room is read and dropped.
FileDrain(c) ==
    /\ pc[c] = "file_drain"
    /\ \E o \in ReadOutcomes(c, loc[c].size) :
         IF o = "data"
         THEN LET r == ReadExactly(inbuf[c], loc[c].size)
              IN  /\ pc' = [pc EXCEPT ![c] = "read"]
                  /\ loc' = [loc EXCEPT ![c] = Idle]
                  /\ NoWrite
                  /\ inbuf' = [inbuf EXCEPT ![c] = r.rest]
                  /\ took' = [by |-> c, bytes |-> r.data]
                  /\ UNCHANGED <<CLIENTS, slots, ROOMS, roomKeys>>
         ELSE /\ DisconnectStart(c)
              /\ inbuf' = [inbuf EXCEPT ![c] = <<>>]
              /\ took' = NoBytes
    /\ rd' = NoLine
    /\ UNCHANGED <<EVENT_QUEUE, dloc, peer, nread, nput>>

\* Line 155 resumed: the payload of a /file sent inside a room.
FilePayload(c) ==
    /\ pc[c] = "file_payload"
    /\ \E o \in ReadOutcomes(c, loc[c].size) :
         IF o = "data"
         THEN LET r == ReadExactly(inbuf[c], loc[c].size)
              IN  /\ FileEnqueue(c, loc[c])
                  /\ inbuf' = [inbuf EXCEPT ![c] = r.rest]
                  /\ took' = [by |-> c, bytes |-> r.data]
         ELSE /\ DisconnectStart(c)
              /\ inbuf' = [inbuf EXCEPT ![c] = <<>>]
              /\ took' = NoBytes
              /\ UNCHANGED <<EVENT_QUEUE, nput>>
    /\ rd' = NoLine
    /\ UNCHANGED <<dloc, peer, nread>>

\* Line 162, after the drain of line 161.
FileSent(c) ==
    /\ pc[c] = "file_sent"
    /\ IF Recipients(ROOMS, loc[c].room, c) = {}
       THEN /\ pc' = [pc EXCEPT ![c] = "read"]
            /\ loc' = [loc EXCEPT ![c] = Idle]
            /\ NoWrite
       ELSE BroadcastStart(c, ROOMS, loc[c].room, loc[c].text, c, "read", Idle)
    /\ NoRead
    /\ UNCHANGED <<CLIENTS, slots, ROOMS, roomKeys, EVENT_QUEUE, dloc, peer, inbuf, nread, nput>>

\* Mutant: an error reply also clears the caller's room field.
Reply_ClearsRoom(c, text) ==
    /\ send(c, c, <<TextChunk(text, 0)>>)
    /\ CLIENTS' = SetRoom(CLIENTS, c, None)
    /\ UNCHANGED <<slots, ROOMS, roomKeys, pc, loc>>

\* A reply to the caller, after which the loop reads the next line.
Reply(c, text) ==
    /\ send(c, c, <<TextChunk(text, 0)>>)
    /\ UNCHANGED <<CLIENTS, slots, ROOMS, roomKeys, pc, loc>>

\* Lines 139-155 up to the first suspension.
FileCmd(c, msg) ==
    IF Len(msg) < 3
    THEN Reply(c, <<"Usage:", "/file", "filename", "size">>)
    ELSE IF msg[3] \notin IntWords
    THEN Reply(c, <<"Invalid", "file", "size">>)
    ELSE LET filename == Basename(msg[2])
             size == IntOf(msg[3])
             room == RoomOf(CLIENTS, c)
         IN  IF room = None
             THEN /\ send(c, c, <<TextChunk(<<"Join", "room", "first">>, 0)>>)
                  /\ pc' = [pc EXCEPT ![c] = "file_drain"]
                  /\ loc' = [loc EXCEPT ![c] = [Idle EXCEPT !.size = size]]
                  /\ UNCHANGED <<CLIENTS, slots, ROOMS, roomKeys>>
             ELSE IF size < 0
             THEN DisconnectStart(c)     \* ValueError, caught at line 180
             ELSE /\ pc' = [pc EXCEPT ![c] = "file_payload"]
                  /\ loc' = [loc EXCEPT ![c] =
                               [Idle EXCEPT !.size = size, !.filename = filename,
                                            !.room = room]]
                  /\ NoWrite
                  /\ UNCHANGED <<CLIENTS, slots, ROOMS, roomKeys>>

\* ---------------------------------------------------------- the read loop
\* Lines 98-103.
RoomsCmd(c) == Reply(c, RoomsText(roomKeys, ROOMS))

\* Mutant: /who lists every session, whatever its room.
WhoCmd_ListsEveryone(c) ==
    LET room == RoomOf(CLIENTS, c)
        members == DOMAIN CLIENTS
    IN  IF room = None THEN Reply(c, <<"Join", "a", "room", "first">>)
        ELSE \E ws \in Orders(members) : Reply(c, WhoText(room, ws, CLIENTS, c))

\* Lines 105-121.
WhoCmd(c) ==
    LET room == RoomOf(CLIENTS, c)
        members == Members(ROOMS, room)
    IN  IF room = None THEN Reply(c, <<"Join", "a", "room", "first">>)
        ELSE IF members = {} THEN Reply(c, <<"Room", "is", "empty">>)
        ELSE \E ws \in Orders(members) : Reply(c, WhoText(room, ws, CLIENTS, c))

\* Mutant: a plain line is queued whether or not its sender is in a room.
ChatCmd_NoRoomCheck(c, msg) ==
    LET room == RoomOf(CLIENTS, c)
        nick == OrAnonim(NickOf(CLIENTS, c))
    IN  /\ EVENT_QUEUE' = Put(EVENT_QUEUE,
                              TextEvent(room, ChatText(nick, msg), nput + 1, c,
                                        Members(ROOMS, room)))
        /\ nput' = nput + 1
        /\ NoWrite
        /\ UNCHANGED <<CLIENTS, slots, ROOMS, roomKeys, pc, loc>>

\* Lines 167-176.
ChatCmd(c, msg) ==
    LET room == RoomOf(CLIENTS, c)
        nick == OrAnonim(NickOf(CLIENTS, c))
    IN  IF room = None
        THEN Reply(c, <<"Join", "room", "first">>) /\ UNCHANGED <<EVENT_QUEUE, nput>>
        ELSE /\ EVENT_QUEUE' = Put(EVENT_QUEUE,
                                   TextEvent(room, ChatText(nick, msg), nput + 1, c,
                                             Members(ROOMS, room)))
             /\ nput' = nput + 1
             /\ NoWrite
             /\ UNCHANGED <<CLIENTS, slots, ROOMS, roomKeys, pc, loc>>

\* Mutant: /quit is answered and the loop reads on.
QuitCmd_ReadsOn(c) == Reply(c, <<"Bye">>)

\* Lines 164-165: break leaves the read loop, and the code after the loop
\* (lines 183-198) runs to its first suspension.
QuitCmd(c) == DisconnectStart(c)

\* Lines 67-176: one line of the read loop, up to the next suspension.
HandleLine(c, msg) ==
    IF msg = <<>>
    THEN NoWrite /\ UNCHANGED <<CLIENTS, slots, ROOMS, roomKeys, pc, loc, EVENT_QUEUE, nput>>
    ELSE IF StartsWith(msg[1], "/nick")
    THEN LET parts == SplitMax(msg, 1)
         IN  /\ IF Len(parts) < 2
                THEN Reply(c, <<"Usage:", "/nick", "name">>)
                ELSE /\ CLIENTS' = SetNick(CLIENTS, c, parts[2])
                     /\ send(c, c, <<TextChunk(NickSetText(parts[2]), 0)>>)
                     /\ UNCHANGED <<slots, ROOMS, roomKeys, pc, loc>>
             /\ UNCHANGED <<EVENT_QUEUE, nput>>
    ELSE IF StartsWith(msg[1], "/join")
    THEN LET parts == SplitMax(msg, 1)
         IN  /\ IF Len(parts) < 2
                THEN Reply(c, <<"Usage:", "/join", "room">>)
                ELSE JoinCmd(c, parts[2])
             /\ UNCHANGED <<EVENT_QUEUE, nput>>
    ELSE IF StartsWith(msg[1], "/rooms")
    THEN RoomsCmd(c) /\ UNCHANGED <<EVENT_QUEUE, nput>>
    ELSE IF StartsWith(msg[1], "/who")
    THEN WhoCmd(c) /\ UNCHANGED <<EVENT_QUEUE, nput>>
    ELSE IF StartsWith(msg[1], "/pm")
    THEN LET parts == SplitMax(msg, 2)
         IN  /\ IF Len(parts) < 3
                THEN Reply(c, <<"Usage:", "/pm", "nick", "message">>)
                ELSE PmLoop(c, PmLocals(c, parts[2][1], parts[3]))
             /\ UNCHANGED <<EVENT_QUEUE, nput>>
    ELSE IF StartsWith(msg[1], "/file")
    THEN FileCmd(c, msg) /\ UNCHANGED <<EVENT_QUEUE, nput>>
    ELSE IF StartsWith(msg[1], "/quit")
    THEN QuitCmd(c) /\ UNCHANGED <<EVENT_QUEUE, nput>>
    ELSE ChatCmd(c, msg)

\* The payload a client sends after a line: the announced number of bytes
\* after a /file line with a size that is a number and not negative.
Announced(msg) ==
    IF /\ Len(msg) >= 3
       /\ msg[1] = "/file"
       /\ msg[3] \in IntWords
       /\ IntOf(msg[3]) >= 0
    THEN Payload(IntOf(msg[3]))
    ELSE <<>>

\* The place of the first newline byte in buf, 0 when it has none.
RECURSIVE NewlineAt(_, _)
NewlineAt(buf, i) ==
    IF i > Len(buf) THEN 0
    ELSE IF buf[i] = "x0a" THEN i
    ELSE NewlineAt(buf, i + 1)

\* reader.readline() and decode().strip() (lines 64-67) on a stream whose
\* unread bytes are buf, the client sending the line msg and its payload
\* next.  With no unread bytes the line is msg.  Unread payload bytes are
\* read as text: up to their first newline, or glued to the front of msg.
ReadLineFrom(buf, msg) ==
    IF buf = <<>> THEN [line |-> msg, rest |-> Announced(msg)]
    ELSE LET i == NewlineAt(buf, 1)
         IN  IF i = 0
             THEN [line |-> <<"<bytes>" \o msg[1]>> \o Tail(msg),
                   rest |-> Announced(msg)]
             ELSE [line |-> IF i = 1 THEN <<>> ELSE <<"<bytes>">>,
                   rest |-> SubSeq(buf, i + 1, Len(buf))]

\* readline (line 64) returns a line of the client.
ReadLine(c, lines) ==
    /\ pc[c] = "read"
    /\ peer[c] = "open"
    /\ nread < MaxLines
    /\ \E msg \in lines :
         LET r == ReadLineFrom(inbuf[c], msg)
         IN  /\ HandleLine(c, r.line)
             /\ rd' = [by |-> c, line |-> r.line]
             /\ inbuf' = [inbuf EXCEPT ![c] = r.rest]
    /\ took' = NoBytes
    /\ nread' = nread + 1
    /\ UNCHANGED <<dloc, peer>>

\* readline returns b"" or raises ConnectionResetError: the loop ends.
ReadEOF(c) ==
    /\ pc[c] = "read"
    /\ peer[c] = "gone"
    /\ DisconnectStart(c)
    /\ NoRead
    /\ UNCHANGED <<EVENT_QUEUE, dloc, peer, inbuf, nread, nput>>

\* The client closes its end of the connection.
PeerClose(c) ==
    /\ pc[c] \notin {"new", "done"}
    /\ peer[c] = "open"
    /\ peer' = [peer EXCEPT ![c] = "gone"]
    /\ inbuf' = inbuf
    /\ NoRead
    /\ NoWrite
    /\ UNCHANGED <<CLIENTS, slots, ROOMS, roomKeys, EVENT_QUEUE, pc, loc, dloc,
                   nread, nput>>

\* ------------------------------------------------------------- dispatcher
\* The value of a key that the event dict does not have.
NoKey == "<no key>"

\* The exception that taking the event apart raises (lines 37-40):
\* event["type"] on a dict without that key is a KeyError.  "" when none.
EventError(e) == IF e.type = NoKey THEN "KeyError" ELSE ""

\* Mutant: the handler of the loop catches RuntimeError only.
Caught_RuntimeOnly(exc) == exc = "RuntimeError"

\* except Exception (line 49): the exceptions that are caught and logged,
\* after which the loop goes on with the next event.
Caught(exc) == exc \in {"KeyError", "TypeError", "ValueError", "RuntimeError"}

\* Mutant: the author of a text event is excluded like the sender of a file.
EventTodo_SkipsAuthor(e, rooms) == Recipients(rooms, e.room, e.from)

\* The members an event is written to (lines 38 and 20-21, lines 41-42).
EventTodo(e, rooms) ==
    IF e.type = "file_broadcast" THEN Recipients(rooms, e.room, e.sender)
    ELSE Recipients(rooms, e.room, NoConn)

\* What is written to each of them (line 22, lines 44-45).
\* Mutant: the payload is not written with its framing line.
EventChunks_FrameOnly(e) ==
    IF e.type = "file_broadcast"
    THEN <<TextChunk(FileFrameText(e.filename, e.data), e.seq)>>
    ELSE <<TextChunk(e.text, e.seq)>>

EventChunks(e) ==
    IF e.type = "file_broadcast"
    THEN <<TextChunk(FileFrameText(e.filename, e.data), e.seq), DataChunk(e.data, e.seq)>>
    ELSE <<TextChunk(e.text, e.seq)>>

\* An event with nobody to write to, or whose error is caught, is finished
\* without a suspension, and get() on a non-empty queue returns at once.
\* The result starts with the event at which the dispatcher stops.
RECURSIVE SkipSilent(_, _)
SkipSilent(queue, rooms) ==
    IF queue = <<>> THEN queue
    ELSE IF EventError(Head(queue)) # ""
    THEN IF Caught(EventError(Head(queue)))
         THEN SkipSilent(Tail(queue), rooms)
         ELSE queue
    ELSE IF EventTodo(Head(queue), rooms) = {} THEN SkipSilent(Tail(queue), rooms)
    ELSE queue

\* Mutant: get() returns the first event and leaves it on the queue.
QueueGet_Peeks(queue) == queue

\* EVENT_QUEUE.get() (line 35) removes the event it returns: the queue that
\* is left when the first event of a non-empty queue was taken.
QueueGet(queue) == Tail(queue)

\* The number of "Dispatcher error" lines that the events of a sequence
\* make the handler print (lines 49-50).
RECURSIVE ErrorsIn(_)
ErrorsIn(events) ==
    IF events = <<>> THEN 0
    ELSE (IF EventError(Head(events)) # "" /\ Caught(EventError(Head(events)))
          THEN 1 ELSE 0) + ErrorsIn(Tail(events))

\* Mutant: an event is written to the members its room had when it was put.
DispatchRun_AtEnqueue(queue) ==
    LET q == SkipSilent(queue, ROOMS)
        n == Len(queue) - Len(q)
    IN  IF q = <<>>
        THEN /\ EVENT_QUEUE' = <<>>
             /\ dloc' = [dloc EXCEPT !.pc = "get", !.todo = {}, !.taken = @ + n,
                                     !.dropped = SubSeq(queue, 1, n),
                                     !.errors = @ + ErrorsIn(queue)]
             /\ NoWrite
        ELSE IF EventError(Head(q)) # ""
        THEN /\ EVENT_QUEUE' = QueueGet(q)
             /\ dloc' = [dloc EXCEPT !.pc = "dead", !.todo = {}, !.taken = @ + n + 1,
                                     !.dropped = SubSeq(queue, 1, n),
                                     !.errors = @ + ErrorsIn(SubSeq(queue, 1, n))]
             /\ NoWrite
        ELSE \E w \in Head(q).mem0 :
               /\ EVENT_QUEUE' = QueueGet(q)
               /\ dloc' = [pc |-> "send", ev |-> Head(q),
                           snap |-> Head(q).mem0,
                           todo |-> AfterWrite(Head(q).mem0 \ {w},
                                               Writable(w)),
                           got |-> {w},
                           failed |-> IF Writable(w) THEN {} ELSE {w},
                           taken |-> dloc.taken + n + 1,
                           errors |-> dloc.errors + ErrorsIn(SubSeq(queue, 1, n)),
                           dropped |-> SubSeq(queue, 1, n)]
               /\ send(Dispatcher, w, EventChunks(Head(q)))

\* Lines 34-52 from get() to the next suspension, or to the end of the task
\* when an exception leaves the loop.  taken counts the events get() has
\* returned, errors the "Dispatcher error" lines printed; failed holds the
\* members whose write failed in this fan-out, dropped the events this run
\* of the loop took without writing anything.
DispatchRun(queue) ==
    LET q == SkipSilent(queue, ROOMS)
        n == Len(queue) - Len(q)
    IN  IF q = <<>>
        THEN /\ EVENT_QUEUE' = <<>>
             /\ dloc' = [dloc EXCEPT !.pc = "get", !.todo = {}, !.taken = @ + n,
                                     !.dropped = SubSeq(queue, 1, n),
                                     !.errors = @ + ErrorsIn(queue)]
             /\ NoWrite
        ELSE IF EventError(Head(q)) # ""
        THEN /\ EVENT_QUEUE' = QueueGet(q)
             /\ dloc' = [dloc EXCEPT !.pc = "dead", !.todo = {}, !.taken = @ + n + 1,
                                     !.dropped = SubSeq(queue, 1, n),
                                     !.errors = @ + ErrorsIn(SubSeq(queue, 1, n))]
             /\ NoWrite
        ELSE \E w \in EventTodo(Head(q), ROOMS) :
               /\ EVENT_QUEUE' = QueueGet(q)
               /\ dloc' = [pc |-> "send", ev |-> Head(q),
                           snap |-> Members(ROOMS, Head(q).room),
                           todo |-> AfterWrite(EventTodo(Head(q), ROOMS) \ {w},
                                               Writable(w)),
                           got |-> {w},
                           failed |-> IF Writable(w) THEN {} ELSE {w},
                           taken |-> dloc.taken + n + 1,
                           errors |-> dloc.errors + ErrorsIn(SubSeq(queue, 1, n)),
                           dropped |-> SubSeq(queue, 1, n)]
               /\ send(Dispatcher, w, EventChunks(Head(q)))

\* get() wakes up on a put.
DispatchGet ==
    /\ dloc.pc = "get"
    /\ EVENT_QUEUE # <<>>
    /\ DispatchRun(EVENT_QUEUE)
    /\ NoRead
    /\ UNCHANGED <<CLIENTS, slots, ROOMS, roomKeys, pc, loc, peer, inbuf, nread, nput>>

\* The dispatcher resumed after a drain.
DispatchStep ==
    /\ dloc.pc = "send"
    /\ IF dloc.todo # {}
       THEN \E w \in dloc.todo :
              /\ send(Dispatcher, w, EventChunks(dloc.ev))
              /\ dloc' = [dloc EXCEPT !.todo = AfterWrite(@ \ {w}, Writable(w)),
                                      !.got = @ \cup {w},
                                      !.failed = IF Writable(w) THEN @ ELSE @ \cup {w}]
              /\ UNCHANGED EVENT_QUEUE
       ELSE DispatchRun(EVENT_QUEUE)
    /\ NoRead
    /\ UNCHANGED <<CLIENTS, slots, ROOMS, roomKeys, pc, loc, peer, inbuf, nread, nput>>

\* An event dict without the key "type" is put on the queue by code other
\* than handle_client, as the tests put events.  It counts as an input.
PutMalformed ==
    /\ nread < MaxLines
    /\ EVENT_QUEUE' = Put(EVENT_QUEUE, [NoEvent EXCEPT !.type = NoKey, !.seq = nput + 1])
    /\ nput' = nput + 1
    /\ nread' = nread + 1
    /\ NoRead
    /\ NoWrite
    /\ UNCHANGED <<CLIENTS, slots, ROOMS, roomKeys, pc, loc, dloc, peer, inbuf>>

\* ------------------------------------------------------- the specification
Next ==
    \/ \E c \in Few : Accept(c)
    \/ \E c \in Conns : ReadLine(c, CoreLines)
    \/ \E c \in Conns : ReadEOF(c)
    \/ \E c \in Conns : PeerClose(c)
    \/ \E c \in Conns : JoinSent(c)
    \/ \E c \in Conns : BroadcastStep(c)
    \/ \E c \in Conns : PmFromSent(c)
    \/ \E c \in Conns : PmToSent(c)
    \/ \E c \in Conns : FileDrain(c)
    \/ \E c \in Conns : FilePayload(c)
    \/ \E c \in Conns : FileSent(c)
    \/ DispatchGet
    \/ DispatchStep

Spec == Init /\ [][Next]_vars

\* The steps of connection c's task that need nothing from its client: a
\* task resumed from a drain, from a read of bytes the client has sent, or
\* from a read on a connection the client has closed.
TaskStep(c) ==
    \/ ReadEOF(c)
    \/ JoinSent(c)
    \/ BroadcastStep(c)
    \/ PmFromSent(c)
    \/ PmToSent(c)
    \/ FileDrain(c)
    \/ FilePayload(c)
    \/ FileSent(c)

\* The event loop runs every task that is ready: a write completes or
\* fails, and the task waiting for it is resumed.
Fairness ==
    /\ \A c \in Conns : WF_vars(TaskStep(c))
    /\ WF_vars(DispatchGet)
    /\ WF_vars(DispatchStep)

\* The lines of the specification with fairness: one line of each kind
\* that ends a command in a different way.
FairLines ==
    {<<"/nick", "Alice">>, <<"/join", "lobby">>, <<"/join", "temp">>,
     <<"/pm", "Alice", "hi">>, <<"/file", "dir/report.bin", "2">>,
     <<"/file", "report.bin", "-1">>, <<"Hello!">>, <<"/quit">>}

NextFair ==
    \/ \E c \in Few : Accept(c)
    \/ \E c \in Conns : ReadLine(c, FairLines)
    \/ \E c \in Conns : PeerClose(c)
    \/ \E c \in Conns : TaskStep(c)
    \/ DispatchGet
    \/ DispatchStep

SpecFair == Init /\ [][NextFair]_vars /\ Fairness

\* The same server, its clients sending the lines of ErrLines.
NextErr ==
    \/ \E c \in Few : Accept(c)
    \/ \E c \in Conns : ReadLine(c, ErrLines)
    \/ \E c \in Conns : ReadEOF(c)
    \/ \E c \in Conns : PeerClose(c)
    \/ \E c \in Conns : JoinSent(c)
    \/ \E c \in Conns : BroadcastStep(c)
    \/ \E c \in Conns : PmFromSent(c)
    \/ \E c \in Conns : PmToSent(c)
    \/ \E c \in Conns : FileDrain(c)
    \/ \E c \in Conns : FilePayload(c)
    \/ \E c \in Conns : FileSent(c)
    \/ DispatchGet
    \/ DispatchStep

SpecErr == Init /\ [][NextErr]_vars

\* The lines of the specification with malformed events.
PoisonLines ==
    {<<"/nick", "Alice">>, <<"/join", "lobby">>, <<"/pm", "Alice", "hi">>,
     <<"/file", "dir/report.bin", "2">>, <<"Hello!">>, <<"/quit">>}

\* The server with fair scheduling, and events put on the queue that the
\* dispatcher cannot take apart.
NextPoison ==
    \/ \E c \in Few : Accept(c)
    \/ \E c \in Conns : ReadLine(c, PoisonLines)
    \/ \E c \in Conns : PeerClose(c)
    \/ \E c \in Conns : TaskStep(c)
    \/ DispatchGet
    \/ DispatchStep
    \/ PutMalformed

SpecPoison == Init /\ [][NextPoison]_vars /\ Fairness

\* The lines of the specification of events sent to a room of three.
WideLines == {<<"/join", "lobby">>, <<"Hello!">>, <<"/file", "dir/report.bin", "2">>}

\* The server with NWide connections, its clients sending WideLines; the
\* client that goes away is the one of the last connection.
NextWide ==
    \/ \E c \in Conns : Accept(c)
    \/ \E c \in Conns : ReadLine(c, WideLines)
    \/ \E c \in Conns : ReadEOF(c)
    \/ PeerClose(NWide)
    \/ \E c \in Conns : JoinSent(c)
    \/ \E c \in Conns : BroadcastStep(c)
    \/ \E c \in Conns : FileDrain(c)
    \/ \E c \in Conns : FilePayload(c)
    \/ \E c \in Conns : FileSent(c)
    \/ DispatchGet
    \/ DispatchStep

SpecWide == Init /\ [][NextWide]_vars

\* The lines of the specification of three connections changing rooms.
JoinLines == {<<"/join", "lobby">>, <<"/join", "temp">>}

\* The server with NWide connections whose clients only join rooms.
NextJoin ==
    \/ \E c \in Conns : Accept(c)
    \/ \E c \in Conns : ReadLine(c, JoinLines)
    \/ \E c \in Conns : JoinSent(c)
    \/ \E c \in Conns : BroadcastStep(c)

SpecJoin == Init /\ [][NextJoin]_vars

\* The lines of the specification of clients that choose a nickname whose
\* first word is /file: a nickname is the rest of the line (line 72).
FrameLines ==
    {<<"/nick", "/file", "x", "5">>, <<"/join", "lobby">>, <<"/quit">>}

NextFrame ==
    \/ \E c \in Few : Accept(c)
    \/ \E c \in Conns : ReadLine(c, FrameLines)
    \/ \E c \in Conns : JoinSent(c)
    \/ \E c \in Conns : BroadcastStep(c)

SpecFrame == Init /\ [][NextFrame]_vars

\* ------------------------------------------------------------- the claims
\* C1: at every suspension point of every task, every entry of the room
\* registry has at least one member (an entry emptied by a /join or by a
\* disconnect is deleted in the step that emptied it), and the registry's
\* keys are exactly the rooms that have members.
C1_NoEmptyRoom ==
    /\ \A r \in DOMAIN ROOMS : ROOMS[r] # {}
    /\ \A r \in DOMAIN ROOMS : \E i \in DOMAIN roomKeys : roomKeys[i] = r
    /\ \A i \in DOMAIN roomKeys : roomKeys[i] \in DOMAIN ROOMS

\* C1's case: a task is suspended in the leave broadcast of a room that has
\* been emptied and deleted by the others meanwhile.
C1_Witness ==
    \E c \in Conns :
        /\ pc[c] = "bcast"
        /\ loc[c].ret \in {"join", "disc"}
        /\ loc[c].broom \notin DOMAIN ROOMS

\* C2: the members of every room have a session, and a connection whose
\* disconnect cleanup has completed is a member of no room.
C2_MembersHaveSession ==
    /\ \A r \in DOMAIN ROOMS : ROOMS[r] \subseteq DOMAIN CLIENTS
    /\ \A c \in Conns : pc[c] = "done" =>
          /\ c \notin DOMAIN CLIENTS
          /\ \A r \in DOMAIN ROOMS : c \notin ROOMS[r]

\* C2's case: a connection that was in a room has completed its cleanup
\* while that room lives on with another member.
C2_Witness ==
    \E c \in Conns :
        /\ pc[c] = "done"
        /\ loc[c].room # None
        /\ loc[c].room \in DOMAIN ROOMS

\* C3: a connection whose session has no room is in no room's member set.
C3_NoRoomNoMembership ==
    \A c \in DOMAIN CLIENTS :
        CLIENTS[c].room = None => \A r \in DOMAIN ROOMS : c \notin ROOMS[r]

\* C3's case: a session without a room beside a room with a member.
C3_Witness ==
    \E c \in DOMAIN CLIENTS :
        /\ CLIENTS[c].room = None
        /\ pc[c] = "read"
        /\ DOMAIN ROOMS # {}

\* C4: queued broadcasts are delivered in global enqueue order.  The events
\* waiting in EVENT_QUEUE are in the order they were put and all were put
\* after the event the dispatcher is writing; every write of the dispatcher
\* belongs to the event it holds; the dispatcher never goes back to an
\* earlier event (so a connection that receives a and b receives the one put
\* first first) and moves to another event only when no write of the
\* current one is left.
C4_EnqueueOrder ==
    /\ [](/\ \A i \in DOMAIN EVENT_QUEUE : EVENT_QUEUE[i].seq > dloc.ev.seq
          /\ \A i, j \in DOMAIN EVENT_QUEUE :
                i < j => EVENT_QUEUE[i].seq < EVENT_QUEUE[j].seq)
    /\ [][/\ wrote'.by = Dispatcher =>
               \A k \in DOMAIN wrote'.chunks : wrote'.chunks[k].ev = dloc'.ev.seq
          /\ dloc'.ev.seq >= dloc.ev.seq
          /\ dloc'.ev.seq # dloc.ev.seq => dloc.todo = {}]_vars

\* C4's case: the dispatcher has written event a to a connection and is
\* suspended in its drain while event b, put later by another connection,
\* waits in the queue for the same recipient.
C4_Witness ==
    /\ dloc.pc = "send"
    /\ wrote.by = Dispatcher
    /\ wrote.ok
    /\ EVENT_QUEUE # <<>>
    /\ Head(EVENT_QUEUE).from # dloc.ev.from
    /\ wrote.to \in Head(EVENT_QUEUE).mem0

\* C5 as stated in the claim: a write of broadcast(R, T, exclude=E) goes to a
\* connection that is a member of R, other than E, when the write is made; a
\* connection that has left R before its write is not written to.
C5_OnlyCurrentMembers ==
    /\ \A c \in Conns :
          (pc[c] = "bcast" /\ wrote.by = c) =>
              wrote.to \in Members(ROOMS, loc[c].broom) \ {loc[c].exclude}
    /\ (dloc.pc = "send" /\ wrote.by = Dispatcher /\ dloc.ev.type = "broadcast") =>
          wrote.to \in Members(ROOMS, dloc.ev.room)

\* C5, amended: broadcast(R, T, exclude=E) writes T once to every connection
\* that was a member of R when broadcast was called, except E, and to no
\* other connection; it returns only when all of them have been written.
\* The members are copied at the call, so a connection that leaves R after
\* the call and before its write is still written to.
C5_SnapshotRecipients ==
    /\ [](/\ \A c \in Conns : pc[c] = "bcast" =>
                /\ loc[c].got \cup loc[c].todo = loc[c].snap \ {loc[c].exclude}
                /\ loc[c].got \cap loc[c].todo = {}
                /\ wrote.by = c =>
                      /\ wrote.to \in loc[c].got
                      /\ wrote.chunks = <<[k |-> "line", v |-> loc[c].text, ev |-> 0]>>
          /\ (dloc.pc = "send" /\ dloc.ev.type = "broadcast") =>
                /\ dloc.got \cup dloc.todo = dloc.snap
                /\ dloc.got \cap dloc.todo = {}
                /\ wrote.by = Dispatcher =>
                      /\ wrote.to \in dloc.got
                      /\ wrote.chunks = <<[k |-> "line", v |-> dloc.ev.text,
                                           ev |-> dloc.ev.seq]>>)
    /\ [][/\ \A c \in Conns :
               /\ (pc[c] # "bcast" /\ pc'[c] = "bcast") =>
                     /\ loc'[c].snap = Members(ROOMS', loc'[c].broom)
                     /\ loc'[c].got = {wrote'.to}
               /\ (pc[c] = "bcast" /\ pc'[c] = "bcast" /\ wrote'.by = c) =>
                     /\ wrote'.to \notin loc[c].got
                     /\ loc'[c].got = loc[c].got \cup {wrote'.to}
                     /\ loc'[c].snap = loc[c].snap
                     /\ loc'[c].exclude = loc[c].exclude
                     /\ loc'[c].text = loc[c].text
               /\ (pc[c] = "bcast" /\ pc'[c] # "bcast") => loc[c].todo = {}
          /\ (dloc'.pc = "send" /\ dloc'.ev.seq # dloc.ev.seq) =>
               /\ dloc'.snap = Members(ROOMS', dloc'.ev.room)
               /\ dloc'.got = {wrote'.to}
          /\ (dloc.pc = "send" /\ dloc'.ev.seq = dloc.ev.seq /\ wrote'.by = Dispatcher) =>
               /\ wrote'.to \notin dloc.got
               /\ dloc'.got = dloc.got \cup {wrote'.to}
               /\ dloc'.snap = dloc.snap
          /\ (dloc.pc = "send" /\ (dloc'.pc = "get" \/ dloc'.ev.seq # dloc.ev.seq)) =>
               dloc.todo = {}]_vars

\* C5's case: a broadcast writes to a connection that was a member of the
\* room at the call and has left the room since.
C5_Witness ==
    \E c \in Conns :
        /\ pc[c] = "bcast"
        /\ wrote.by = c
        /\ wrote.ok
        /\ wrote.to \in loc[c].snap
        /\ wrote.to \notin Members(ROOMS, loc[c].broom)

\* C6 as stated in the claim: a /pm <nick> <text> line is answered with
\* 'User not found' exactly when no connection holds <nick> when the line is
\* handled; otherwise '[PM from <sender>] <text>' is written to a holder at
\* once, and when the delivery loop ends every connection that held <nick>
\* when the line was handled and is still connected has been written to,
\* whatever the other connections did while the loop was suspended on a
\* write.
C6_PmReachesAllHolders ==
    [][\A c \in Conns :
        /\ (rd'.by = c /\ rd'.line[1] = "/pm" /\ Len(rd'.line) >= 3) =>
              LET holders == {w \in DOMAIN CLIENTS : CLIENTS[w].nick = <<rd'.line[2]>>}
                  sender == IF CLIENTS[c].nick = None THEN <<"Anonim">>
                            ELSE CLIENTS[c].nick
              IN  /\ holders = {} <=>
                        /\ wrote'.to = c
                        /\ wrote'.chunks = <<[k |-> "line", v |-> <<"User", "not", "found">>,
                                              ev |-> 0]>>
                  /\ holders # {} =>
                        /\ pc'[c] = "pm_from_sent"
                        /\ loc'[c].held = holders
                        /\ wrote'.to \in holders
                        /\ wrote'.chunks =
                             <<[k |-> "line",
                                v |-> <<"[PM", "from">> \o sender \o <<"]">>
                                      \o SubSeq(rd'.line, 3, Len(rd'.line)),
                                ev |-> 0]>>
        /\ (pc[c] = "pm_to_sent" /\ pc'[c] \notin {"pm_to_sent", "pm_from_sent"}) =>
              (loc[c].held \cap DOMAIN CLIENTS') \subseteq loc[c].sent]_vars

\* C7: file transfer round trip.  A member of room R that sends
\* '/file dir/report.bin 2' and then the two bytes 00 0a gets
\* 'File sent: report.bin', and an event for R with the name report.bin, the
\* same two bytes and itself as sender is put on the queue.  The dispatcher
\* writes the line '/file report.bin 2' followed by those two bytes, in one
\* piece, once to every member R has when it takes the event (the members
\* at sending time when membership did not change) except the sender; it
\* leaves the event only when all were written, and nothing else ever
\* writes a payload, so the sender never gets the frame.
C7_FileRoundTrip ==
    /\ [](/\ (dloc.pc = "send" /\ dloc.ev.type = "file_broadcast") =>
                /\ dloc.got \cup dloc.todo = dloc.snap \ {dloc.ev.from}
                /\ dloc.got \cap dloc.todo = {}
                /\ dloc.ev.sender = dloc.ev.from
          /\ (\E k \in DOMAIN wrote.chunks :
                  \/ wrote.chunks[k].k = "data"
                  \/ wrote.chunks[k].v[1] = "/file") =>
                /\ wrote.by = Dispatcher
                /\ dloc.ev.type = "file_broadcast"
                /\ wrote.to \in dloc.got
                /\ wrote.to # dloc.ev.from
                /\ wrote.chunks =
                     <<[k |-> "line", v |-> <<"/file", "report.bin", "2">>,
                        ev |-> dloc.ev.seq],
                       [k |-> "data", v |-> <<"x00", "x0a">>, ev |-> dloc.ev.seq]>>
          /\ (wrote.by = Dispatcher /\ dloc.ev.type = "file_broadcast") =>
                Len(wrote.chunks) = 2 /\ wrote.chunks[2].k = "data")
    /\ [][/\ \A c \in Conns :
               /\ (rd'.by = c /\ rd'.line = <<"/file", "dir/report.bin", "2">>
                     /\ CLIENTS[c].room # None) =>
                     /\ pc'[c] = "file_payload"
                     /\ loc'[c].filename = "report.bin"
                     /\ loc'[c].size = 2
                     /\ loc'[c].room = CLIENTS[c].room
                     /\ wrote'.chunks = <<>>
               /\ (pc[c] = "file_payload" /\ pc'[c] = "file_sent") =>
                     /\ wrote'.to = c
                     /\ wrote'.chunks =
                          <<[k |-> "line", v |-> <<"File", "sent:", "report.bin">>,
                             ev |-> 0]>>
                     /\ Len(EVENT_QUEUE') = Len(EVENT_QUEUE) + 1
                     /\ LET e == EVENT_QUEUE'[Len(EVENT_QUEUE')]
                        IN  /\ e.type = "file_broadcast"
                            /\ e.room = loc[c].room
                            /\ e.filename = "report.bin"
                            /\ e.data = <<"x00", "x0a">>
                            /\ e.sender = c
                            /\ e.mem0 = Members(ROOMS, loc[c].room)
          /\ (dloc'.pc = "send" /\ dloc'.ev.seq # dloc.ev.seq
                /\ dloc'.ev.type = "file_broadcast") =>
               /\ dloc'.snap = Members(ROOMS', dloc'.ev.room)
               /\ dloc'.got = {wrote'.to}
          /\ (dloc.pc = "send" /\ dloc.ev.type = "file_broadcast"
                /\ dloc'.ev.seq = dloc.ev.seq /\ wrote'.by = Dispatcher) =>
               /\ wrote'.to \notin dloc.got
               /\ dloc'.got = dloc.got \cup {wrote'.to}
               /\ dloc'.snap = dloc.snap
          /\ (dloc.pc = "send" /\ dloc.ev.type = "file_broadcast"
                /\ (dloc'.pc = "get" \/ dloc'.ev.seq # dloc.ev.seq)) =>
               dloc.todo = {}]_vars

\* C7's case: the dispatcher has written the frame to the last of the other
\* members of a room whose membership is as it was when the file was sent,
\* the sender among the members.
C7_Witness ==
    /\ wrote.by = Dispatcher
    /\ wrote.ok
    /\ dloc.ev.type = "file_broadcast"
    /\ dloc.snap = dloc.ev.mem0
    /\ dloc.ev.from \in dloc.snap
    /\ dloc.todo = {}
    /\ dloc.got = dloc.ev.mem0 \ {dloc.ev.from}

\* C8: a plain line 'Hello!' read from a member of room R with nickname N
\* puts on the queue a text event for R with the text '[N] Hello!' ('Anonim'
\* for N when no nickname is set).  When R has the same members at the time
\* the dispatcher takes the event as when the line was read, the event is
\* not dropped, and the dispatcher writes that text once to every member of
\* R, the sender included, before it leaves the event.
C8_ChatReachesRoom ==
    /\ [](/\ (dloc.pc = "send" /\ dloc.ev.type = "broadcast") =>
                /\ dloc.got \cup dloc.todo = dloc.snap
                /\ dloc.got \cap dloc.todo = {}
                /\ wrote.by = Dispatcher =>
                      /\ wrote.to \in dloc.got
                      /\ wrote.chunks = <<[k |-> "line", v |-> dloc.ev.text,
                                           ev |-> dloc.ev.seq]>>
          /\ \A i \in DOMAIN EVENT_QUEUE : EVENT_QUEUE[i].from \in EVENT_QUEUE[i].mem0)
    /\ [][/\ \A c \in Conns :
               (rd'.by = c /\ rd'.line = <<"Hello!">> /\ CLIENTS[c].room # None) =>
                  /\ Len(EVENT_QUEUE') = Len(EVENT_QUEUE) + 1
                  /\ LET e == EVENT_QUEUE'[Len(EVENT_QUEUE')]
                     IN  /\ e.type = "broadcast"
                         /\ e.room = CLIENTS[c].room
                         /\ e.text = <<"[">>
                                      \o (IF CLIENTS[c].nick = <<>> THEN <<"Anonim">>
                                          ELSE CLIENTS[c].nick)
                                      \o <<"]", "Hello!">>
                         /\ e.from = c
                         /\ e.mem0 = Members(ROOMS, CLIENTS[c].room)
                         /\ c \in e.mem0
          /\ \A i \in DOMAIN EVENT_QUEUE :
               LET e == EVENT_QUEUE[i]
               IN  (/\ e.type = "broadcast"
                    /\ Members(ROOMS, e.room) = e.mem0
                    /\ \A j \in DOMAIN EVENT_QUEUE' : EVENT_QUEUE'[j].seq # e.seq) =>
                       /\ dloc'.ev = e
                       /\ dloc'.pc = "send"
                       /\ dloc'.snap = e.mem0
                       /\ dloc'.got = {wrote'.to}
          /\ (dloc.pc = "send" /\ dloc.ev.type = "broadcast"
                /\ dloc'.ev.seq = dloc.ev.seq /\ wrote'.by = Dispatcher) =>
               /\ wrote'.to \notin dloc.got
               /\ dloc'.got = dloc.got \cup {wrote'.to}
               /\ dloc'.snap = dloc.snap
          /\ (dloc.pc = "send" /\ dloc.ev.type = "broadcast"
                /\ (dloc'.pc = "get" \/ dloc'.ev.seq # dloc.ev.seq)
                /\ dloc.snap = dloc.ev.mem0) =>
               /\ dloc.got = dloc.ev.mem0
               /\ dloc.ev.from \in dloc.got]_vars

\* C8's case: Alice and another connection are in a room whose membership
\* did not change, and the dispatcher has written '[Alice] Hello!' to both,
\* to Alice last.
C8_Witness ==
    /\ wrote.by = Dispatcher
    /\ wrote.ok
    /\ wrote.to = dloc.ev.from
    /\ dloc.ev.type = "broadcast"
    /\ dloc.ev.text = <<"[", "Alice", "]", "Hello!">>
    /\ dloc.snap = dloc.ev.mem0
    /\ Cardinality(dloc.ev.mem0) = 2
    /\ dloc.todo = {}
    /\ dloc.got = dloc.ev.mem0

\* C9: the reply to /rooms is 'No rooms available' exactly when no room has
\* a member; otherwise it is 'Available rooms:' followed by one entry per
\* room that has at least one member, each with the number of its members,
\* and by no entry for any other room.
C9_RoomsListing ==
    [][\A c \in Conns :
        (rd'.by = c /\ rd'.line = <<"/rooms">>) =>
            LET occupied == {r \in RoomNames : \E w \in Conns :
                                <<r>> \in DOMAIN ROOMS /\ w \in ROOMS[<<r>>]}
                v == wrote'.chunks[1].v
                Listed(r) == \E i \in DOMAIN v : v[i] = "\n" /\ v[i + 1] = r
            IN  /\ wrote'.to = c
                /\ Len(wrote'.chunks) = 1
                /\ v = <<"No", "rooms", "available">> <=> occupied = {}
                /\ occupied # {} =>
                      /\ SubSeq(v, 1, 2) = <<"Available", "rooms:">>
                      /\ Len(v) = 2 + 5 * Cardinality(occupied)
                      /\ \A r \in RoomNames : Listed(r) <=> r \in occupied
                      /\ \A r \in occupied :
                            \E i \in DOMAIN v :
                                SubSeq(v, i, i + 4) =
                                  <<"\n", r, "(",
                                    ToString(Cardinality(ROOMS[<<r>>])), "users)">>]_vars

\* C9's case: the sole member of temp has disconnected, and a /rooms of
\* another client, itself in lobby, is answered with lobby alone.
C9_Witness ==
    \E c, d \in Conns :
        /\ pc[d] = "done"
        /\ loc[d].room = <<"temp">>
        /\ rd = [by |-> c, line |-> <<"/rooms">>]
        /\ wrote.to = c
        /\ wrote.ok
        /\ wrote.chunks = <<[k |-> "line",
                             v |-> <<"Available", "rooms:", "\n", "lobby", "(", "1", "users)">>,
                             ev |-> 0]>>

\* C10 as stated in the claim: a client that connects is written 'Welcome!',
\* its '/nick Alice' is answered with 'Nick set: Alice', its '/join lobby'
\* into the empty room with 'Joined room lobby', and when it is still alone
\* in the room after that reply, the join broadcast that follows writes
\* nothing to its own stream.
C10_AloneSeesNoJoinLine ==
    [][\A c \in Conns :
        /\ (pc[c] = "new" /\ pc'[c] # "new") =>
              wrote' = [by |-> c, to |-> c, ok |-> peer[c] = "open",
                        chunks |-> <<[k |-> "line", v |-> <<"Welcome!">>, ev |-> 0]>>]
        /\ (rd'.by = c /\ rd'.line = <<"/nick", "Alice">>) =>
              wrote' = [by |-> c, to |-> c, ok |-> peer[c] = "open",
                        chunks |-> <<[k |-> "line", v |-> <<"Nick", "set:", "Alice">>,
                                     ev |-> 0]>>]
        /\ (rd'.by = c /\ rd'.line = <<"/join", "lobby">> /\ CLIENTS[c].room = <<>>) =>
              /\ wrote' = [by |-> c, to |-> c, ok |-> peer[c] = "open",
                           chunks |-> <<[k |-> "line", v |-> <<"Joined", "room", "lobby">>,
                                        ev |-> 0]>>]
              /\ pc'[c] = "join_sent"
        /\ (pc[c] = "join_sent" /\ pc'[c] # "join_sent"
              /\ CLIENTS[c] = [nick |-> <<"Alice">>, room |-> <<"lobby">>]
              /\ ROOMS[<<"lobby">>] = {c}) =>
              wrote'.to # c]_vars

\* C10, amended: as above, except that the join broadcast, which excludes
\* nobody and runs when the joiner is already a member, writes
\* 'Alice joined the room' to the joiner's own stream after
\* 'Joined room lobby'; the command then ends without another write.
C10_AloneSeesJoinLine ==
    [][\A c \in Conns :
        /\ (pc[c] = "new" /\ pc'[c] # "new") =>
              wrote' = [by |-> c, to |-> c, ok |-> peer[c] = "open",
                        chunks |-> <<[k |-> "line", v |-> <<"Welcome!">>, ev |-> 0]>>]
        /\ (rd'.by = c /\ rd'.line = <<"/nick", "Alice">>) =>
              wrote' = [by |-> c, to |-> c, ok |-> peer[c] = "open",
                        chunks |-> <<[k |-> "line", v |-> <<"Nick", "set:", "Alice">>,
                                     ev |-> 0]>>]
        /\ (rd'.by = c /\ rd'.line = <<"/join", "lobby">> /\ CLIENTS[c].room = <<>>) =>
              /\ wrote' = [by |-> c, to |-> c, ok |-> peer[c] = "open",
                           chunks |-> <<[k |-> "line", v |-> <<"Joined", "room", "lobby">>,
                                        ev |-> 0]>>]
              /\ pc'[c] = "join_sent"
        /\ (pc[c] = "join_sent" /\ pc'[c] # "join_sent"
              /\ CLIENTS[c] = [nick |-> <<"Alice">>, room |-> <<"lobby">>]
              /\ ROOMS[<<"lobby">>] = {c}) =>
              /\ wrote' = [by |-> c, to |-> c, ok |-> peer[c] = "open",
                           chunks |-> <<[k |-> "line",
                                        v |-> <<"Alice", "joined", "the", "room">>,
                                        ev |-> 0]>>]
              /\ pc'[c] = "bcast"
              /\ loc'[c].todo = {}
        /\ (pc[c] = "bcast" /\ pc'[c] # "bcast" /\ loc[c].ret = "read") =>
              /\ pc'[c] = "read"
              /\ wrote'.chunks = <<>>]_vars

\* C10's case: the only client of the server has sent two lines, has the
\* nickname Alice, is alone in lobby and has just been delivered
\* 'Alice joined the room'.
C10_Witness ==
    \E c \in Conns :
        /\ \A d \in Conns \ {c} : pc[d] = "new"
        /\ nread = 2
        /\ c \in DOMAIN CLIENTS
        /\ CLIENTS[c] = [nick |-> <<"Alice">>, room |-> <<"lobby">>]
        /\ <<"lobby">> \in DOMAIN ROOMS
        /\ ROOMS[<<"lobby">>] = {c}
        /\ pc[c] = "bcast"
        /\ wrote = [by |-> c, to |-> c, ok |-> TRUE,
                    chunks |-> <<[k |-> "line", v |-> <<"Alice", "joined", "the", "room">>,
                                 ev |-> 0]>>]

\* C11: a /join that succeeds writes 'Joined room <room>' to the joiner,
\* who is then a member of the room; the broadcast that follows is made of
\* the text '<nick> joined the room', excludes nobody, has the joiner among
\* the members it iterates, and returns to the read loop only when the
\* joiner too has been written that text: the joiner gets both lines, the
\* confirmation first.
C11_JoinerGetsBothLines ==
    [][\A c \in Conns :
        /\ (pc[c] # "join_sent" /\ pc'[c] = "join_sent") =>
              LET room == CLIENTS'[c].room
                  nick == IF CLIENTS'[c].nick = <<>> THEN <<"Anonim">>
                          ELSE CLIENTS'[c].nick
              IN  /\ room # <<>>
                  /\ c \in ROOMS'[room]
                  /\ wrote' = [by |-> c, to |-> c, ok |-> peer[c] = "open",
                               chunks |-> <<[k |-> "line",
                                            v |-> <<"Joined", "room">> \o room,
                                            ev |-> 0]>>]
                  /\ loc'[c].room = room
                  /\ loc'[c].text = nick \o <<"joined", "the", "room">>
        /\ (pc[c] = "join_sent" /\ pc'[c] # "join_sent") =>
              /\ pc'[c] = "bcast"
              /\ loc'[c].ret = "read"
              /\ loc'[c].exclude = NoConn
              /\ loc'[c].broom = loc[c].room
              /\ loc'[c].text = loc[c].text
              /\ c \in loc'[c].snap
              /\ wrote'.by = c
              /\ wrote'.chunks = <<[k |-> "line", v |-> loc[c].text, ev |-> 0]>>
        /\ (pc[c] = "bcast" /\ loc[c].ret = "read" /\ loc[c].exclude = NoConn
              /\ wrote'.by = c) =>
              /\ wrote'.chunks = <<[k |-> "line", v |-> loc[c].text, ev |-> 0]>>
              /\ wrote'.ok = (peer[wrote'.to] = "open" /\ pc[wrote'.to] # "done")
        /\ (pc[c] = "bcast" /\ loc[c].ret = "read" /\ loc[c].exclude = NoConn
              /\ pc'[c] # "bcast") =>
              /\ c \in loc[c].got
              /\ pc'[c] = "read"]_vars

\* C11's case: a joiner with a nickname, in a room with another member, has
\* been delivered its own join line as the last write of the join broadcast.
C11_Witness ==
    \E c \in Conns :
        /\ pc[c] = "bcast"
        /\ loc[c].ret = "read"
        /\ loc[c].exclude = NoConn
        /\ Cardinality(loc[c].snap) = 2
        /\ loc[c].todo = {}
        /\ c \in DOMAIN CLIENTS
        /\ CLIENTS[c].nick # <<>>
        /\ wrote = [by |-> c, to |-> c, ok |-> TRUE,
                    chunks |-> <<[k |-> "line",
                                 v |-> CLIENTS[c].nick \o <<"joined", "the", "room">>,
                                 ev |-> 0]>>]

\* C12 as stated in the claim: every malformed command (/nick or /join
\* without argument, /pm with fewer than two arguments, /file with fewer
\* than two arguments or with a size that is not a non-negative integer) is
\* answered with an error reply written to the caller only, changes neither
\* the registries nor the queue, and leaves the caller in its read loop.
C12_MalformedKeepsLoop ==
    [][\A c \in Conns :
        (rd'.by = c /\ rd'.line \in MalformedLines) =>
            /\ wrote'.by = c
            /\ wrote'.to = c
            /\ wrote'.ok = (peer[c] = "open")
            /\ Len(wrote'.chunks) = 1
            /\ wrote'.chunks[1].v =
                  (CASE rd'.line = <<"/nick">> -> <<"Usage:", "/nick", "name">>
                     [] rd'.line = <<"/join">> -> <<"Usage:", "/join", "room">>
                     [] rd'.line[1] = "/pm" -> <<"Usage:", "/pm", "nick", "message">>
                     [] rd'.line[1] = "/file" /\ Len(rd'.line) < 3 ->
                          <<"Usage:", "/file", "filename", "size">>
                     [] OTHER -> <<"Invalid", "file", "size">>)
            /\ pc'[c] = "read"
            /\ CLIENTS' = CLIENTS
            /\ ROOMS' = ROOMS
            /\ EVENT_QUEUE' = EVENT_QUEUE]_vars

\* C13 as stated in the claim: a /file line is accepted (its payload is read
\* next) only when its size is a non-negative integer; with any other size
\* token the caller is written 'Invalid file size', no payload is read, no
\* event is put on the queue and the caller stays in its read loop.
C13_OnlyNonNegativeSizes ==
    [][\A c \in Conns :
        (rd'.by = c /\ rd'.line[1] = "/file" /\ Len(rd'.line) = 3) =>
            IF rd'.line[3] \in {"0", "1", "2"}
            THEN pc'[c] \in {"file_payload", "file_drain"}
            ELSE /\ wrote'.to = c
                 /\ wrote'.chunks = <<[k |-> "line", v |-> <<"Invalid", "file", "size">>,
                                       ev |-> 0]>>
                 /\ pc'[c] = "read"
                 /\ EVENT_QUEUE' = EVENT_QUEUE
                 /\ c \in DOMAIN CLIENTS']_vars

\* The task of c is in the disconnect cleanup, suspended in the leave
\* broadcast of line 189.
InCleanup(c) == pc[c] = "bcast" /\ loc[c].ret = "disc"

\* c is in the member set of no room of the registry.
InNoRoom(c, rooms) == \A r \in DOMAIN rooms : c \notin rooms[r]

\* C14: every exit of a connection's read loop runs the disconnect cleanup
\* exactly once.  A task that leaves the positions of the read loop (on
\* /quit, on the end of the stream, on a failed payload read or on an
\* exception of a handler) is in the cleanup and has been taken out of its
\* room in that step; the cleanup ends with the session entry removed in
\* its last step and the stream closed; a closed connection never runs
\* again; and under fair scheduling no connection stays in the cleanup, or
\* open after its client is gone, for ever: in the end every connection is
\* closed, or waits for a line of a client that is still there.
C14_CleanupOnce ==
    /\ [](\A c \in Conns :
            /\ InCleanup(c) => (c \in DOMAIN CLIENTS /\ InNoRoom(c, ROOMS))
            /\ pc[c] = "done" => (c \notin DOMAIN CLIENTS /\ InNoRoom(c, ROOMS))
            /\ pc[c] \notin {"new", "done"} => c \in DOMAIN CLIENTS)
    /\ [][\A c \in Conns :
            /\ pc[c] = "done" => pc'[c] = "done"
            /\ InCleanup(c) =>
                  \/ pc'[c] = "bcast" /\ loc'[c].ret = "disc"
                  \/ pc'[c] = "done" /\ loc[c].todo = {}
            /\ (rd'.by = c /\ rd'.line = <<"/quit">>) =>
                  \/ pc'[c] = "bcast" /\ loc'[c].ret = "disc"
                  \/ pc'[c] = "done"
            /\ (pc[c] = "read" /\ pc'[c] # "read" /\ rd'.by # c) =>
                  \/ pc'[c] = "bcast" /\ loc'[c].ret = "disc"
                  \/ pc'[c] = "done"
            /\ (pc[c] # "done" /\ ~InCleanup(c)
                  /\ (pc'[c] = "done" \/ (pc'[c] = "bcast" /\ loc'[c].ret = "disc"))) =>
                  InNoRoom(c, ROOMS')
            /\ (pc[c] # "done" /\ pc'[c] = "done") =>
                  /\ c \in DOMAIN CLIENTS
                  /\ c \notin DOMAIN CLIENTS'
                  /\ InNoRoom(c, ROOMS')]_vars
    /\ <>[](\A c \in Conns :
              \/ pc[c] = "done"
              \/ pc[c] \in {"new", "read"} /\ peer[c] = "open")

\* C14's case: a connection alone in its room has sent /quit and is closed,
\* its session and its room removed in that step.
C14_Witness ==
    \E c \in Conns :
        /\ rd = [by |-> c, line |-> <<"/quit">>]
        /\ pc[c] = "done"
        /\ loc[c].room # <<>>
        /\ loc[c].room \notin DOMAIN ROOMS
        /\ c \notin DOMAIN CLIENTS

\* The events that a step of the dispatcher takes from the queue.
TakenNow == SubSeq(EVENT_QUEUE, 1, dloc'.taken - dloc.taken)

\* C15: no event stops the dispatcher.  Its task never ends; a step that
\* takes events takes all the malformed events at the head of the queue,
\* prints one error for each of them and writes nothing for them, and goes
\* on to the first well-formed event behind them; a write that failed in a
\* fan-out leaves the dispatcher in its loop; and with fair scheduling the
\* queue is in the end empty with the dispatcher waiting in get(), so every
\* event put behind a malformed one or behind a failed write was taken.
C15_DispatcherSurvives ==
    /\ [](dloc.pc \in {"get", "send"})
    /\ [][dloc'.taken > dloc.taken =>
            /\ dloc'.errors = dloc.errors + ErrorsIn(TakenNow)
            /\ \/ /\ dloc'.pc = "get"
                  /\ EVENT_QUEUE' = <<>>
                  /\ wrote' = Quiet
               \/ /\ dloc'.pc = "send"
                  /\ dloc'.ev = TakenNow[Len(TakenNow)]
                  /\ EventError(dloc'.ev) = ""
                  /\ wrote'.by = Dispatcher
                  /\ wrote'.chunks = EventChunks(dloc'.ev)]_vars
    /\ <>[](EVENT_QUEUE = <<>> /\ dloc.pc = "get" /\ dloc.taken = nput)

\* C15's case: after a malformed event was logged and a write of a fan-out
\* failed, the dispatcher is writing a later event to a member.
C15_Witness ==
    /\ dloc.errors > 0
    /\ dloc.failed # {}
    /\ dloc.pc = "send"
    /\ wrote.by = Dispatcher
    /\ wrote.ok
    /\ dloc.ev.seq > 1

\* C16: every event put on the queue is taken once.  The events are numbered
\* as they are put: the events still queued are those numbered after the
\* taken ones, each once and in order, so none is lost and none is queued
\* again; the event being fanned out is the last one taken; the dispatcher
\* never goes back to an event it had before, and in a fan-out never writes
\* to a member twice; and with fair scheduling, writes completing or
\* failing, every event put is in the end taken and its fan-out finished.
C16_TakenOnce ==
    /\ [](/\ dloc.taken + Len(EVENT_QUEUE) = nput
          /\ \A i \in DOMAIN EVENT_QUEUE : EVENT_QUEUE[i].seq = dloc.taken + i
          /\ dloc.pc = "send" => dloc.ev.seq = dloc.taken
          /\ dloc.ev.seq <= dloc.taken)
    /\ [][/\ dloc'.ev # dloc.ev => dloc'.ev.seq > dloc.ev.seq
          /\ (dloc'.ev = dloc.ev /\ wrote'.by = Dispatcher) =>
                 /\ wrote'.to \notin dloc.got
                 /\ dloc'.got = dloc.got \cup {wrote'.to}]_vars
    /\ <>[](EVENT_QUEUE = <<>> /\ dloc.pc = "get" /\ dloc.todo = {}
            /\ dloc.taken = nput)

\* C16's case: the dispatcher took the event of one connection and is in
\* its fan-out while the event of another connection waits on the queue.
C16_Witness ==
    /\ dloc.taken >= 1
    /\ dloc.pc = "send"
    /\ wrote.by = Dispatcher
    /\ EVENT_QUEUE # <<>>
    /\ dloc.ev.from \in Conns
    /\ Head(EVENT_QUEUE).from \in Conns \ {dloc.ev.from}

\* The members the dispatcher's fan-out is for: its copy of the room,
\* without the sender for a file.
FanOut ==
    IF dloc.ev.type = "file_broadcast" THEN dloc.snap \ {dloc.ev.sender}
    ELSE dloc.snap

\* The task of c has left its read loop.
Exited(c) == InCleanup(c) \/ pc[c] = "done"

\* C17: a failed write is swallowed.  In a fan-out of the dispatcher (text or
\* file) and in a broadcast of a handler, the members written and the
\* members still to be written are together the members of the copy, also
\* after a write that failed; every write carries the whole message, and is
\* delivered unless it is one of the failed ones; the dispatcher leaves an
\* event only when every member of the copy was written; and a task whose
\* write failed in a step that is not an exit of its read loop stays in
\* the loop.
C17_FailedWriteSkipped ==
    /\ [](/\ dloc.pc = "send" =>
                /\ dloc.got \cup dloc.todo = FanOut
                /\ dloc.got \cap dloc.todo = {}
                /\ dloc.failed \subseteq dloc.got
                /\ wrote.by = Dispatcher =>
                      /\ wrote.to \in dloc.got
                      /\ wrote.chunks = EventChunks(dloc.ev)
                      /\ wrote.ok <=> wrote.to \notin dloc.failed
          /\ \A c \in Conns : pc[c] = "bcast" =>
                /\ loc[c].got \cup loc[c].todo = loc[c].snap \ {loc[c].exclude}
                /\ loc[c].got \cap loc[c].todo = {}
                /\ wrote.by = c =>
                      /\ wrote.to \in loc[c].got
                      /\ wrote.chunks = <<TextChunk(loc[c].text, 0)>>)
    /\ [][/\ (dloc.pc = "send" /\ (dloc'.pc # "send" \/ dloc'.ev.seq # dloc.ev.seq)) =>
                /\ dloc.got = FanOut
                /\ dloc.todo = {}
          /\ \A c \in Conns :
                (/\ wrote'.by = c
                 /\ ~wrote'.ok
                 /\ ~Exited(c)
                 /\ \/ pc[c] \in {"bcast", "join_sent", "pm_from_sent",
                                   "pm_to_sent", "file_sent"}
                    \/ rd'.by = c /\ rd'.line # <<"/quit">>) =>
                   /\ pc'[c] # "done"
                   /\ ~(pc'[c] = "bcast" /\ loc'[c].ret = "disc")]_vars

\* C17's case: in the fan-out of a file to a room of three, the write to
\* one member failed and the write to the other was delivered after it.
C17_Witness ==
    /\ dloc.pc = "send"
    /\ dloc.ev.type = "file_broadcast"
    /\ Cardinality(dloc.snap) = 3
    /\ dloc.failed # {}
    /\ dloc.todo = {}
    /\ wrote.by = Dispatcher
    /\ wrote.ok
    /\ wrote.to \notin dloc.failed

\* C18: a /pm command with at least one matching recipient, at the end of
\* its loop over the sessions, has written '[PM from <sender>] <text>' to
\* each recipient it matched and the confirmation '[PM to <nick>] <text>'
\* to its sender exactly once.
C18_OneConfirmation ==
    [][\A c \in Conns :
         (pc[c] = "pm_to_sent" /\ pc'[c] = "read") =>
            /\ loc[c].sent # {}
            /\ loc[c].nconf = 1]_vars

\* The line '<nick> left the room' of connection c, as a write.
LeftChunks(c) ==
    <<[k |-> "line", ev |-> 0,
       v |-> (IF CLIENTS[c].nick = <<>> THEN <<"Anonim">> ELSE CLIENTS[c].nick)
             \o <<"left", "the", "room">>]>>

\* C19: /join B read from a connection c that is in room A.  In the step
\* that reads the line c is taken out of A; when A has other members the
\* task writes them '<nick> left the room', one member of the copy at a
\* drain, c being in no room meanwhile, and only when all of them were
\* written does it delete A if it is empty, enter B and write 'Joined room
\* B' to c; when A has no other member it is deleted and B entered in the
\* step of the read.  '<nick> joined the room' is written only after
\* 'Joined room B'.  On entering B, c is a member of B and of no other room.
C19_LeaveBeforeJoin ==
    /\ [](\A c \in Conns : \A r \in DOMAIN ROOMS :
            c \in ROOMS[r] => c \in DOMAIN CLIENTS /\ CLIENTS[c].room = r)
    /\ [][\A c \in Conns :
          /\ (/\ rd'.by = c
              /\ Len(rd'.line) = 2
              /\ rd'.line[1] = "/join"
              /\ CLIENTS[c].room # <<>>) =>
                LET A == CLIENTS[c].room
                    B == <<rd'.line[2]>>
                IN  /\ A \in DOMAIN ROOMS
                    /\ c \in ROOMS[A]
                    /\ IF ROOMS[A] # {c}
                       THEN /\ pc'[c] = "bcast"
                            /\ loc'[c].ret = "join"
                            /\ loc'[c].room = B
                            /\ loc'[c].snap = ROOMS[A] \ {c}
                            /\ ROOMS'[A] = ROOMS[A] \ {c}
                            /\ InNoRoom(c, ROOMS')
                            /\ CLIENTS' = CLIENTS
                            /\ wrote'.by = c
                            /\ wrote'.to \in ROOMS[A] \ {c}
                            /\ wrote'.chunks = LeftChunks(c)
                       ELSE /\ pc'[c] = "join_sent"
                            /\ A # B => A \notin DOMAIN ROOMS'
          /\ (pc[c] = "bcast" /\ loc[c].ret = "join" /\ wrote'.by = c
                /\ pc'[c] = "bcast") =>
                /\ wrote'.to \in loc[c].snap \ loc[c].got
                /\ wrote'.chunks = LeftChunks(c)
                /\ InNoRoom(c, ROOMS')
          /\ (pc[c] = "bcast" /\ loc[c].ret = "join" /\ pc'[c] # "bcast") =>
                /\ loc[c].got = loc[c].snap
                /\ pc'[c] = "join_sent"
                /\ loc'[c].room = loc[c].room
                /\ loc[c].old # loc[c].room =>
                      (loc[c].old \in DOMAIN ROOMS' <=>
                         (loc[c].old \in DOMAIN ROOMS /\ ROOMS[loc[c].old] # {}))
          /\ (pc[c] # "join_sent" /\ pc'[c] = "join_sent") =>
                LET B == loc'[c].room
                IN  /\ wrote' = [by |-> c, to |-> c, ok |-> peer[c] = "open",
                                 chunks |-> <<[k |-> "line", ev |-> 0,
                                              v |-> <<"Joined", "room">> \o B]>>]
                    /\ CLIENTS'[c].room = B
                    /\ c \in ROOMS'[B]
                    /\ \A r \in DOMAIN ROOMS' : c \in ROOMS'[r] => r = B
          /\ (/\ wrote'.by = c
              /\ Len(wrote'.chunks) = 1
              /\ wrote'.chunks[1].k = "line"
              /\ Len(wrote'.chunks[1].v) = 4
              /\ SubSeq(wrote'.chunks[1].v, 2, 4) = <<"joined", "the", "room">>) =>
                \/ pc[c] = "join_sent"
                \/ pc[c] = "bcast" /\ loc[c].ret = "read"]_vars

\* C19's case: c left room A for room B; the one member that stays in A has
\* been delivered the leave line, c is in no room, 'Joined room B' is not
\* yet written, and B has a member who will be told of the join.
C19_Witness ==
    \E c \in Conns :
        /\ pc[c] = "bcast"
        /\ loc[c].ret = "join"
        /\ loc[c].old # loc[c].room
        /\ loc[c].todo = {}
        /\ loc[c].got = loc[c].snap
        /\ wrote.by = c
        /\ wrote.ok
        /\ wrote.chunks = LeftChunks(c)
        /\ InNoRoom(c, ROOMS)
        /\ loc[c].old \in DOMAIN ROOMS
        /\ ROOMS[loc[c].old] = loc[c].snap
        /\ loc[c].room \in DOMAIN ROOMS
        /\ ROOMS[loc[c].room] # {}

\* C20: a /file line with a size that is a number and not negative, read
\* from a connection that is in no room.  The step that reads it writes
\* 'Join room first' to the caller and puts nothing on the queue; the
\* payload of the announced size is still unread.  The step that follows
\* reads exactly those bytes off the stream, writes nothing, puts nothing
\* on the queue, changes no registry and returns to the read loop with the
\* connection open, unless the client went away meanwhile.  No payload byte
\* is unread when a line is read, so every line read is a line the client
\* sent.
C20_PayloadDrained ==
    /\ [](\A c \in Conns :
            /\ pc[c] = "read" => inbuf[c] = <<>>
            /\ pc[c] = "file_drain" =>
                  /\ loc[c].size < 0 \/ Len(inbuf[c]) = loc[c].size
                  /\ c \in DOMAIN CLIENTS
                  /\ CLIENTS[c].room = <<>>)
    /\ [][\A c \in Conns :
          /\ rd'.by = c => rd'.line \in CoreLines
          /\ (/\ rd'.by = c
              /\ rd'.line = <<"/file", "dir/report.bin", "2">>
              /\ CLIENTS[c].room = <<>>) =>
                /\ wrote' = [by |-> c, to |-> c, ok |-> peer[c] = "open",
                             chunks |-> <<[k |-> "line", ev |-> 0,
                                          v |-> <<"Join", "room", "first">>]>>]
                /\ pc'[c] = "file_drain"
                /\ loc'[c].size = 2
                /\ Len(inbuf'[c]) = 2
                /\ EVENT_QUEUE' = EVENT_QUEUE
                /\ nput' = nput
                /\ CLIENTS' = CLIENTS
                /\ ROOMS' = ROOMS
          /\ (pc[c] = "file_drain" /\ pc'[c] # "file_drain") =>
                /\ EVENT_QUEUE' = EVENT_QUEUE
                /\ nput' = nput
                /\ \/ /\ pc'[c] = "read"
                      /\ took' = [by |-> c, bytes |-> inbuf[c]]
                      /\ Len(took'.bytes) = loc[c].size
                      /\ inbuf'[c] = <<>>
                      /\ wrote' = Quiet
                      /\ CLIENTS' = CLIENTS
                      /\ ROOMS' = ROOMS
                   \/ peer[c] = "gone"]_vars

\* C20's case: the two payload bytes of a /file sent outside a room have
\* just been read and dropped; the connection is in its read loop, open and
\* in no room, and nothing was put on the queue.
C20_Witness ==
    \E c \in Conns :
        /\ took = [by |-> c, bytes |-> <<"x00", "x0a">>]
        /\ pc[c] = "read"
        /\ peer[c] = "open"
        /\ inbuf[c] = <<>>
        /\ c \in DOMAIN CLIENTS
        /\ CLIENTS[c].room = <<>>
        /\ nput = 0
        /\ EVENT_QUEUE = <<>>

\* C21: a plain line or /who read from a connection that is in no room is
\* answered to the caller alone, 'Join room first' for the plain line and
\* 'Join a room first' for /who; the step writes to nobody else, puts no
\* event on the queue, changes neither registry, and leaves the caller in
\* its read loop and the dispatcher where it was.
C21_NoRoomOnlyReply ==
    [][\A c \in Conns :
         (/\ rd'.by = c
          /\ rd'.line \in {<<"Hello!">>, <<"/who">>}
          /\ CLIENTS[c].room = <<>>) =>
            /\ wrote' = [by |-> c, to |-> c, ok |-> peer[c] = "open",
                         chunks |-> <<[k |-> "line", ev |-> 0,
                                      v |-> IF rd'.line = <<"/who">>
                                            THEN <<"Join", "a", "room", "first">>
                                            ELSE <<"Join", "room", "first">>]>>]
            /\ EVENT_QUEUE' = EVENT_QUEUE
            /\ nput' = nput
            /\ CLIENTS' = CLIENTS
            /\ slots' = slots
            /\ ROOMS' = ROOMS
            /\ roomKeys' = roomKeys
            /\ dloc' = dloc
            /\ pc' = pc]_vars

\* C21's case: a connection in no room, after another one has joined a
\* room, has just been answered 'Join room first' to its plain line.
C21_Witness ==
    \E c \in Conns :
        /\ rd = [by |-> c, line |-> <<"Hello!">>]
        /\ c \in DOMAIN CLIENTS
        /\ CLIENTS[c].room = <<>>
        /\ wrote.to = c
        /\ wrote.chunks[1].v = <<"Join", "room", "first">>
        /\ DOMAIN ROOMS # {}
        /\ EVENT_QUEUE = <<>>
        /\ nput = 0

\* C22: the session of a connection c is written by c's own task only.
\* Its nickname changes only in the step that reads a /nick line from c;
\* its room changes only in the step of c's own /join that enters the room
\* (the step that read the line, or the one resumed after the leave
\* broadcast); the session is created by c's own accept and removed by the
\* last step of c's own cleanup.  So a step of another connection or of the
\* dispatcher changes no field of it.
C22_OwnSessionOnly ==
    [][\A c \in Conns :
         /\ (c \in DOMAIN CLIENTS /\ c \in DOMAIN CLIENTS'
               /\ CLIENTS'[c].nick # CLIENTS[c].nick) =>
               /\ rd'.by = c
               /\ Len(rd'.line) >= 2
               /\ rd'.line[1] = "/nick"
               /\ CLIENTS'[c].nick = Tail(rd'.line)
         /\ (c \in DOMAIN CLIENTS /\ c \in DOMAIN CLIENTS'
               /\ CLIENTS'[c].room # CLIENTS[c].room) =>
               /\ pc'[c] = "join_sent"
               /\ \/ rd'.by = c /\ rd'.line[1] = "/join"
                                /\ CLIENTS'[c].room = Tail(rd'.line)
                  \/ pc[c] = "bcast" /\ loc[c].ret = "join"
                                     /\ CLIENTS'[c].room = loc[c].room
         /\ (c \in DOMAIN CLIENTS /\ c \notin DOMAIN CLIENTS') =>
               /\ pc[c] # "done"
               /\ pc'[c] = "done"
         /\ (c \notin DOMAIN CLIENTS /\ c \in DOMAIN CLIENTS') =>
               /\ pc[c] = "new"
               /\ pc'[c] = "read"
               /\ CLIENTS'[c] = [nick |-> <<>>, room |-> <<>>]
         /\ (pc'[c] = pc[c] /\ loc'[c] = loc[c] /\ rd'.by # c /\ c \in DOMAIN CLIENTS) =>
               /\ c \in DOMAIN CLIENTS'
               /\ CLIENTS'[c] = CLIENTS[c]]_vars

\* C22's case: a connection has just set its nickname while another
\* session, with another nickname and in a room, is in the registry.
C22_Witness ==
    \E c, d \in Conns :
        /\ c # d
        /\ rd = [by |-> c, line |-> <<"/nick", "Alice">>]
        /\ c \in DOMAIN CLIENTS
        /\ d \in DOMAIN CLIENTS
        /\ CLIENTS[c].nick = <<"Alice">>
        /\ CLIENTS[d].nick = <<"Bob">>
        /\ CLIENTS[d].room = <<"lobby">>

\* C23: the step that reads /quit from c takes c's task out of its read
\* loop and writes nothing to c: its only write, if any, is the leave line
\* to a member that stays in c's room.  From then on the task reads no
\* line and no payload, writes to nobody but the members of the leave
\* broadcast's copy, never to c, puts no event on the queue, and never
\* returns to the loop.
C23_QuitEndsLoop ==
    [][\A c \in Conns :
         /\ (rd'.by = c /\ rd'.line = <<"/quit">>) =>
               /\ pc'[c] = "done" \/ (pc'[c] = "bcast" /\ loc'[c].ret = "disc")
               /\ wrote'.to # c
               /\ wrote'.by = c => wrote'.chunks = LeftChunks(c)
               /\ EVENT_QUEUE' = EVENT_QUEUE
               /\ nput' = nput
         /\ Exited(c) =>
               /\ pc'[c] = "done" \/ (pc'[c] = "bcast" /\ loc'[c].ret = "disc")
               /\ rd'.by # c
               /\ took'.by # c
               /\ wrote'.by = c =>
                     /\ wrote'.to \in loc[c].snap \ {c}
                     /\ wrote'.chunks = <<[k |-> "line", ev |-> 0, v |-> loc[c].text]>>
               /\ (pc'[c] # pc[c] \/ loc'[c] # loc[c]) =>
                     /\ EVENT_QUEUE' = EVENT_QUEUE
                     /\ nput' = nput]_vars

\* C23's case: /quit was read from a member of a room of two; the task is
\* in its cleanup, its one write the leave line to the member that stays,
\* while the input allows more lines to be read.
C23_Witness ==
    \E c \in Conns :
        /\ rd = [by |-> c, line |-> <<"/quit">>]
        /\ pc[c] = "bcast"
        /\ loc[c].ret = "disc"
        /\ wrote.by = c
        /\ wrote.to # c
        /\ peer[c] = "open"
        /\ nread < MaxLines

\* C24: /who read from a connection c whose session names room R.  c is a
\* member of R, and the reply, written to c, is the header "Users in 'R'
\* (n):" with n the number of members of R, at least 1, followed by one
\* entry per member: for every name, as many entries carry it as R has
\* members of that name ('Anonim' for a member without nickname); exactly
\* one entry is marked '(you)', and it carries c's name.  'Room is empty'
\* is never written.
C24_WhoListsRoom ==
    /\ [](wrote.chunks # <<[k |-> "line", ev |-> 0, v |-> <<"Room", "is", "empty">>]>>)
    /\ [][\A c \in Conns :
          (rd'.by = c /\ rd'.line = <<"/who">> /\ CLIENTS[c].room # <<>>) =>
             LET R == CLIENTS[c].room
                 mem == ROOMS[R]
                 v == wrote'.chunks[1].v
                 NameOf(w) == IF CLIENTS[w].nick = <<>> THEN "Anonim"
                              ELSE CLIENTS[w].nick[1]
                 entries == {i \in DOMAIN v : v[i] = "\n"}
                 marks == {i \in DOMAIN v : v[i] = "(you)"}
             IN  /\ R \in DOMAIN ROOMS
                 /\ c \in mem
                 /\ mem \subseteq DOMAIN CLIENTS
                 /\ wrote'.by = c
                 /\ wrote'.to = c
                 /\ Len(wrote'.chunks) = 1
                 /\ Cardinality(mem) >= 1
                 /\ SubSeq(v, 1, 8) = <<"Users", "in", "'">> \o R
                                        \o <<"'", "(", ToString(Cardinality(mem)), "):">>
                 /\ Len(v) = 8 + 3 * Cardinality(mem) + 1
                 /\ Cardinality(entries) = Cardinality(mem)
                 /\ \A i \in entries : i > 8 /\ v[i + 1] = "*"
                 /\ \A n \in Nicks \cup {"Anonim"} :
                       Cardinality({i \in entries : v[i + 2] = n})
                         = Cardinality({w \in mem : NameOf(w) = n})
                 /\ Cardinality(marks) = 1
                 /\ \A i \in marks : v[i - 3] = "\n" /\ v[i - 1] = NameOf(c)]_vars

\* C24's case: /who in a room of two, one member without a nickname, is
\* answered to the caller, named Alice, with both entries.
C24_Witness ==
    \E c, d \in Conns :
        /\ c # d
        /\ rd = [by |-> c, line |-> <<"/who">>]
        /\ wrote.to = c
        /\ wrote.ok
        /\ c \in DOMAIN CLIENTS
        /\ CLIENTS[c].nick = <<"Alice">>
        /\ CLIENTS[c].room = <<"lobby">>
        /\ ROOMS[<<"lobby">>] = {c, d}
        /\ CLIENTS[d].nick = <<>>
        /\ wrote.chunks[1].v \in
              {<<"Users", "in", "'", "lobby", "'", "(", "2", "):",
                 "\n", "*", "Alice", "(you)", "\n", "*", "Anonim">>,
               <<"Users", "in", "'", "lobby", "'", "(", "2", "):",
                 "\n", "*", "Anonim", "\n", "*", "Alice", "(you)">>}

\* C25: at every point where another task can run, a session whose room
\* field names a room is the session of a member of that room: /join and
\* the disconnect cleanup never leave the registries in an intermediate
\* state across a suspension.
C25_NoIntermediateState ==
    \A c \in DOMAIN CLIENTS :
        CLIENTS[c].room # <<>> =>
           /\ CLIENTS[c].room \in DOMAIN ROOMS
           /\ c \in ROOMS[CLIENTS[c].room]

\* C26: a connection's read loop ends only at one of its own reads (end of
\* input, a failed read of a payload, or /quit): a handler that is
\* suspended in a write, in particular in the delivery loop of /pm, is
\* never taken out of its loop by what other connections do.
C26_OnlyOwnReadEnds ==
    [][\A c \in Conns :
          (~Exited(c) /\ Exited(c)') =>
              pc[c] \in {"read", "file_payload", "file_drain"}]_vars

\* C27: every write of a room fan-out produced by plain chat or by /file
\* (a chat line, a file frame with its payload, or the text
\* '<nick> sent file: <name>') is a write of the dispatcher, made for an
\* event taken from the queue.
C27_FanOutThroughQueue ==
    \A i \in DOMAIN wrote.chunks :
        LET ch == wrote.chunks[i]
            v  == ch.v
        IN  (\/ ch.k = "data"
             \/ ch.k = "line" /\ Len(v) >= 1 /\ v[1] \in {"[", "/file"}
             \/ /\ ch.k = "line" /\ Len(v) >= 3
                /\ SubSeq(v, Len(v) - 2, Len(v) - 1) = <<"sent", "file:">>) =>
               /\ wrote.by = Dispatcher
               /\ ch.ev = dloc.ev.seq

\* C28: when the handler of connection c writes '<nick> left the room' to
\* a member that stays in the room c leaves (by /join or by its
\* disconnect), no chat line that c sent to that room before is still
\* undelivered to that member: none waits on the queue and the dispatcher
\* is not in the middle of one with that member still to be written.
C28_ChatBeforeLeft ==
    \A c \in Conns :
        (/\ pc[c] = "bcast"
         /\ loc[c].ret \in {"join", "disc"}
         /\ wrote.by = c) =>
           /\ \A i \in DOMAIN EVENT_QUEUE :
                 ~(/\ EVENT_QUEUE[i].type = "broadcast"
                   /\ EVENT_QUEUE[i].from = c
                   /\ EVENT_QUEUE[i].room = loc[c].broom)
           /\ ~(/\ dloc.pc = "send"
                 /\ dloc.ev.type = "broadcast"
                 /\ dloc.ev.from = c
                 /\ dloc.ev.room = loc[c].broom
                 /\ wrote.to \notin dloc.got)

\* C29: a handler is suspended in a write to another member of a room only
\* for the leave and join notifications: a plain chat line or a /file
\* command never puts its handler into a broadcast of its own, so the
\* handler is back at its read without having waited for any other
\* connection's write.
C29_SenderNeverWaits ==
    \A c \in Conns :
        pc[c] = "bcast" =>
           /\ Len(loc[c].text) >= 3
           /\ SubSeq(loc[c].text, Len(loc[c].text) - 2, Len(loc[c].text))
                 \in {<<"left", "the", "room">>, <<"joined", "the", "room">>}

\* C30: a /join that names the room the caller is already in leaves the
\* caller a member of that room and writes no '<nick> left the room' line
\* to anyone.
C30_RejoinKeepsMember ==
    [][\A c \in Conns :
          (/\ rd'.by = c
           /\ Len(rd'.line) = 2
           /\ rd'.line[1] = "/join"
           /\ CLIENTS[c].room = <<rd'.line[2]>>) =>
              /\ CLIENTS[c].room \in DOMAIN ROOMS'
              /\ c \in ROOMS'[CLIENTS[c].room]
              /\ wrote'.chunks # LeftChunks(c)]_vars

\* C31: when a member of a room disconnects, the members that remain after
\* its removal are each written '<nick> left the room' once, by the
\* departing handler, exactly when there is such a member; the departing
\* connection is never written its own leave line; and the room is deleted
\* when the removal (or later departures during the notification) left it
\* empty.
C31_LeaveNotification ==
    [][\A c \in Conns :
          /\ (/\ ~Exited(c) /\ Exited(c)'
              /\ c \in DOMAIN CLIENTS
              /\ CLIENTS[c].room # <<>>) =>
                LET r == CLIENTS[c].room
                IN  /\ r \in DOMAIN ROOMS
                    /\ c \in ROOMS[r]
                    /\ IF ROOMS[r] = {c}
                       THEN /\ pc'[c] = "done"
                            /\ r \notin DOMAIN ROOMS'
                            /\ wrote' = Quiet
                       ELSE /\ InCleanup(c)'
                            /\ loc'[c].room = r
                            /\ loc'[c].snap = ROOMS[r] \ {c}
                            /\ ROOMS'[r] = ROOMS[r] \ {c}
                            /\ wrote'.by = c
                            /\ wrote'.to \in ROOMS[r] \ {c}
                            /\ wrote'.chunks = LeftChunks(c)
                            /\ loc'[c].got = {wrote'.to}
          /\ (InCleanup(c) /\ InCleanup(c)'
                /\ (wrote'.by = c \/ loc'[c] # loc[c])) =>
                /\ wrote'.by = c
                /\ wrote'.to \in loc[c].snap \ loc[c].got
                /\ wrote'.to # c
                /\ wrote'.chunks = LeftChunks(c)
                /\ loc'[c].got = loc[c].got \cup {wrote'.to}
                /\ loc'[c].snap = loc[c].snap
          /\ (InCleanup(c) /\ pc'[c] = "done") =>
                /\ loc[c].got = loc[c].snap
                /\ c \notin loc[c].snap
                /\ wrote' = Quiet
                /\ loc[c].room \in DOMAIN ROOMS' <=>
                      (loc[c].room \in DOMAIN ROOMS /\ ROOMS[loc[c].room] # {})]_vars

\* C31's case: a departing member is in its cleanup and has just written
\* its leave line to a member that is still in the room.
C31_Witness ==
    \E c \in Conns : \E w \in Conns \ {c} :
        /\ InCleanup(c)
        /\ wrote.by = c /\ wrote.to = w /\ wrote.ok
        /\ wrote.chunks = LeftChunks(c)
        /\ loc[c].room \in DOMAIN ROOMS
        /\ w \in ROOMS[loc[c].room]
        /\ c \notin ROOMS[loc[c].room]

\* C32: the step in which a /file payload read of connection c fails
\* because the stream ended before <size> bytes arrived takes c out of its
\* loop and into its cleanup, puts nothing on the queue, leaves the
\* dispatcher and every other connection's task and session as they were,
\* and leaves every other connection able to go on: a /pm loop another
\* connection is suspended in does not raise when it resumes.
C32_TruncatedPayload ==
    [][\A c \in Conns :
          (/\ pc[c] \in {"file_payload", "file_drain"}
           /\ loc[c].size >= 0
           /\ Exited(c)') =>
              /\ peer[c] = "gone"
              /\ EVENT_QUEUE' = EVENT_QUEUE
              /\ nput' = nput
              /\ dloc' = dloc
              /\ InNoRoom(c, ROOMS')
              /\ \A d \in Conns \ {c} :
                    /\ pc'[d] = pc[d]
                    /\ loc'[d] = loc[d]
                    /\ d \in DOMAIN CLIENTS =>
                          (d \in DOMAIN CLIENTS' /\ CLIENTS'[d] = CLIENTS[d])
                    /\ pc[d] \in {"pm_from_sent", "pm_to_sent"} =>
                          PmNext(CLIENTS', slots', loc[d].target, loc[d].pos,
                                 loc[d].left, loc[d].used).t # "error"]_vars

\* C33: in every write to a recipient, a framing line '/file <name> <size>'
\* is followed at once, in the same uninterrupted write, by the <size>
\* payload bytes of the same event, and payload bytes are written only
\* right after their framing line: whatever the other tasks do, nothing
\* else is written to the recipient in between.
C33_FrameContiguous ==
    \A i \in DOMAIN wrote.chunks :
        LET ch == wrote.chunks[i]
        IN  /\ (wrote.by = Dispatcher /\ dloc.ev.type = "file_broadcast") =>
                  Len(wrote.chunks) = 2
            /\ (wrote.by = Dispatcher /\ ch.k = "line" /\ ch.v[1] = "/file") =>
                  /\ Len(ch.v) = 3
                  /\ i + 1 \in DOMAIN wrote.chunks
                  /\ wrote.chunks[i + 1].k = "data"
                  /\ wrote.chunks[i + 1].ev = ch.ev
                  /\ ToString(Len(wrote.chunks[i + 1].v)) = ch.v[3]
                  /\ wrote.chunks[i + 1].v = dloc.ev.data
            /\ ch.k = "data" =>
                  /\ i - 1 \in DOMAIN wrote.chunks
                  /\ wrote.chunks[i - 1].k = "line"
                  /\ wrote.chunks[i - 1].v[1] = "/file"

\* C33's case: the dispatcher has written a file frame and its two payload
\* bytes to a recipient while the sender's own handler is in the middle of
\* a broadcast in which it has written to the same recipient.
C33_Witness ==
    \E c \in Conns :
        /\ wrote.by = Dispatcher
        /\ wrote.to # c
        /\ wrote.ok
        /\ Len(wrote.chunks) = 2
        /\ wrote.chunks[1].v = <<"/file", "report.bin", "2">>
        /\ wrote.chunks[2] = [k |-> "data", v |-> <<"x00", "x0a">>, ev |-> dloc.ev.seq]
        /\ dloc.ev.sender = c
        /\ pc[c] = "bcast"
        /\ wrote.to \in loc[c].got

\* C34: an event the dispatcher takes from the queue whose room has no
\* entry in ROOMS is written to nobody, creates no room entry, counts as no
\* error and does not stop the dispatcher, which goes on to the next event
\* in the same step.
C34_MissingRoomDropped ==
    [][\A i \in DOMAIN TakenNow :
          LET e == TakenNow[i]
          IN  (/\ e.type \in {"broadcast", "file_broadcast"}
               /\ e.room \notin DOMAIN ROOMS) =>
                 /\ \A j \in DOMAIN wrote'.chunks : wrote'.chunks[j].ev # e.seq
                 /\ dloc'.pc = "send" => dloc'.ev.seq # e.seq
                 /\ \E j \in DOMAIN dloc'.dropped : dloc'.dropped[j] = e
                 /\ \A j \in DOMAIN EVENT_QUEUE' : EVENT_QUEUE'[j].seq # e.seq
                 /\ ROOMS' = ROOMS
                 /\ roomKeys' = roomKeys
                 /\ dloc'.errors = dloc.errors
                 /\ dloc'.pc \in {"get", "send"}
                 /\ dloc'.pc = "get" => EVENT_QUEUE' = <<>>]_vars

\* C34's case: in its latest run the dispatcher took a chat event and a
\* file event of a room that has no entry, wrote nothing for either, and
\* is waiting on the empty queue with no error counted.
C34_Witness ==
    \E i, j \in DOMAIN dloc.dropped :
        /\ dloc.dropped[i].type = "broadcast"
        /\ dloc.dropped[j].type = "file_broadcast"
        /\ dloc.dropped[i].room = dloc.dropped[j].room
        /\ dloc.dropped[i].room \notin DOMAIN ROOMS
        /\ i < j
        /\ dloc.pc = "get"
        /\ dloc.errors = 0
        /\ EVENT_QUEUE = <<>>
        /\ wrote = Quiet

\* C35: a connection is a member of at most one room; whenever its handler
\* is at its read, about to take the next command, its session names room R
\* exactly if it is a member of ROOMS[R]; and a /join read by a connection
\* that is in a room finds that room in ROOMS: the command does not end the
\* handler's loop.
C35_RoomFieldAtRead ==
    /\ [](\A c \in Conns :
            /\ \A r1, r2 \in DOMAIN ROOMS :
                  (c \in ROOMS[r1] /\ c \in ROOMS[r2]) => r1 = r2
            /\ pc[c] = "read" =>
                  /\ c \in DOMAIN CLIENTS
                  /\ \A r \in DOMAIN ROOMS : c \in ROOMS[r] <=> CLIENTS[c].room = r
                  /\ CLIENTS[c].room # <<>> => CLIENTS[c].room \in DOMAIN ROOMS)
    /\ [][\A c \in Conns :
            (rd'.by = c /\ Len(rd'.line) = 2 /\ rd'.line[1] = "/join") =>
               /\ ~Exited(c)'
               /\ CLIENTS[c].room # <<>> =>
                     /\ CLIENTS[c].room \in DOMAIN ROOMS
                     /\ pc'[c] = "bcast" =>
                           (loc'[c].ret = "join" /\ loc'[c].old = CLIENTS[c].room)]_vars

\* C35's case: a member of a room with another member has read a /join;
\* the old room was found, the member discarded from it, and the leave
\* broadcast to the member that stays has started.
C35_Witness ==
    \E c \in Conns :
        /\ rd.by = c
        /\ rd.line[1] = "/join"
        /\ pc[c] = "bcast"
        /\ loc[c].ret = "join"
        /\ loc[c].old \in DOMAIN ROOMS
        /\ c \notin ROOMS[loc[c].old]
        /\ CLIENTS[c].room = loc[c].old
        /\ wrote.by = c

\* C36: the connections an event is written to are the members its room
\* has in the step in which the dispatcher takes it from the queue (for a
\* file event, without its sender), whatever the members were when it was
\* put: a member that joined since is written to, a member that left since,
\* the author of a chat line included, is not.
C36_RecipientsAtDispatch ==
    [][/\ (dloc'.pc = "send" /\ dloc'.ev.seq # dloc.ev.seq) =>
            LET e == dloc'.ev
                now == Members(ROOMS, e.room)
                target == IF e.type = "file_broadcast" THEN now \ {e.sender} ELSE now
            IN  /\ ROOMS' = ROOMS
                /\ dloc'.got \cup dloc'.todo = target
                /\ wrote'.by = Dispatcher
                /\ wrote'.to \in target
                /\ dloc'.got = {wrote'.to}
                /\ \A w \in e.mem0 \ now : w \notin dloc'.got \cup dloc'.todo
                /\ \A w \in target \ e.mem0 : w \in dloc'.got \cup dloc'.todo
       /\ (dloc.pc = "send" /\ dloc'.ev.seq = dloc.ev.seq /\ wrote'.by = Dispatcher) =>
            /\ wrote'.to \in dloc.todo
            /\ dloc'.got \cup dloc'.todo = dloc.got \cup dloc.todo
       /\ (dloc.pc = "send" /\ dloc'.ev.seq # dloc.ev.seq) => dloc.todo = {}]_vars

\* C36's case: the dispatcher writes a chat line to a connection that
\* joined the room after the line was put, and the author, who was a member
\* when it put the line, has left the room and is not among the recipients.
C36_Witness ==
    /\ dloc.pc = "send"
    /\ dloc.ev.type = "broadcast"
    /\ dloc.ev.from \in dloc.ev.mem0
    /\ dloc.ev.from \notin dloc.snap
    /\ wrote.by = Dispatcher
    /\ wrote.ok
    /\ wrote.to \in dloc.snap \ dloc.ev.mem0
    /\ dloc.todo = {}
    /\ dloc.got = {wrote.to}

\* C37: every line written to a client whose first word is /file is the
\* framing line of a file event, written by the dispatcher as
\* '/file <name> <size>' and followed in the same write by <size> payload
\* bytes; no reply or notification begins with /file.
C37_FileLinesAreFrames ==
    \A i \in DOMAIN wrote.chunks :
        LET ch == wrote.chunks[i]
        IN  (ch.k = "line" /\ Len(ch.v) >= 1 /\ ch.v[1] = "/file") =>
               /\ wrote.by = Dispatcher
               /\ dloc.ev.type = "file_broadcast"
               /\ Len(ch.v) = 3
               /\ i + 1 \in DOMAIN wrote.chunks
               /\ wrote.chunks[i + 1].k = "data"
               /\ ToString(Len(wrote.chunks[i + 1].v)) = ch.v[3]

\* C38: a step that reads a command and answers it with a usage or
\* validation error ('Usage: ...' or 'Invalid file size') leaves the
\* sessions, the rooms, the queue and the dispatcher as they were and the
\* caller in its read loop; /nick and /join without argument, /pm with
\* fewer than two arguments and /file with fewer than two arguments or a
\* size that is not an integer are all answered so.
C38_RejectedLeavesState ==
    [][\A c \in Conns :
        LET rejected ==
              /\ rd'.by = c
              /\ wrote'.by = c
              /\ Len(wrote'.chunks) = 1
              /\ wrote'.chunks[1].v \in
                    {<<"Usage:", "/nick", "name">>, <<"Usage:", "/join", "room">>,
                     <<"Usage:", "/pm", "nick", "message">>,
                     <<"Usage:", "/file", "filename", "size">>,
                     <<"Invalid", "file", "size">>}
        IN  /\ (/\ rd'.by = c
                /\ rd'.line \in MalformedLines
                /\ ~(Len(rd'.line) = 3 /\ rd'.line[3] \in IntWords)) => rejected
            /\ rejected =>
                  /\ rd'.line \in MalformedLines
                  /\ wrote'.to = c
                  /\ CLIENTS' = CLIENTS
                  /\ slots' = slots
                  /\ ROOMS' = ROOMS
                  /\ roomKeys' = roomKeys
                  /\ EVENT_QUEUE' = EVENT_QUEUE
                  /\ nput' = nput
                  /\ dloc' = dloc
                  /\ pc'[c] = "read"]_vars

\* C38's case: a member of a room, with an event of its own waiting on the
\* queue, has sent /join without a room name and has been answered with
\* the usage line; it is still in its room and the event is still queued.
C38_Witness ==
    \E c \in Conns :
        /\ rd = [by |-> c, line |-> <<"/join">>]
        /\ wrote = [by |-> c, to |-> c, ok |-> TRUE,
                    chunks |-> <<[k |-> "line", ev |-> 0,
                                 v |-> <<"Usage:", "/join", "room">>]>>]
        /\ c \in DOMAIN CLIENTS
        /\ CLIENTS[c].room \in DOMAIN ROOMS
        /\ c \in ROOMS[CLIENTS[c].room]
        /\ EVENT_QUEUE # <<>>
        /\ EVENT_QUEUE[1].from = c
        /\ pc[c] = "read"
====
